---- MODULE Spec2Model ----
(***************************************************************************)
(* CompletionsCache of vscode/src/completions: the prefix-keyed LRU cache  *)
(* of autocomplete results, followed by the latency controller, the model  *)
(* synchronisation and ModelsService of lib/shared, the client settings,   *)
(* the context status publisher, the repository picker's RepoFetcher,      *)
(* WorkspaceRepoMapper and RemoteSearch and the autocomplete language      *)
(* filters of vscode/src, each with the specifications that exercise it.   *)
(* Strings are sequences of                                                *)
(* one-character strings, 1-based here and 0-based in the source; every    *)
(* operator that takes an index takes the source's 0-based index.          *)
(***************************************************************************)
EXTENDS Integers, Sequences, FiniteSets, TLC

VARIABLES
    cache,  \* the LRUCache of the CompletionsCache instance
    log,    \* the calls made on the instance so far, oldest first
    ops,    \* how many of them the model has taken
    sync,   \* the subscriptions and latest values of a syncModels observable
    storage,          \* modelsService.storage: the stored model preferences
    clientSettings_,  \* the module variable of client-settings
    publisher,        \* the ContextStatusPublisher instance
    heap,             \* the objects that callers and components share by reference
    fetcher,          \* the RepoFetcher instance and its fetch loops
    mapper,           \* the WorkspaceRepoMapper instance and its promises
    remoteSearch      \* the RemoteSearch instance

vars == <<cache, log, ops, sync, storage, clientSettings_, publisher, heap,
          fetcher, mapper, remoteSearch>>

\* what the operations on the completions cache and the latency controller
\* leave alone
others == <<sync, storage, clientSettings_, publisher, heap,
            fetcher, mapper, remoteSearch>>

\* the call just made
last == log[Len(log)]

(***************************************************************************)
(* String helpers (JavaScript semantics).                                  *)
(***************************************************************************)
NL == "\n"

Min(a, b) == IF a < b THEN a ELSE b

\* s.slice(0, n)
SliceTo(s, n) == SubSeq(s, 1, Min(n, Len(s)))

\* s.slice(i)
SliceFrom(s, i) == SubSeq(s, i + 1, Len(s))

\* s.slice(-n)
SliceLast(s, n) == IF Len(s) > n THEN SubSeq(s, Len(s) - n + 1, Len(s)) ELSE s

\* s.indexOf(ch, from): 0-based index of the first ch at or after from, else -1
indexOf(s, ch, from) ==
    LET hits == {i \in from .. (Len(s) - 1) : s[i + 1] = ch}
    IN  IF hits = {} THEN -1 ELSE CHOOSE i \in hits : \A j \in hits : i <= j

\* the first n characters of the string unit repeated without end
Repeat(unit, n) == [i \in 1 .. n |-> unit[((i - 1) % Len(unit)) + 1]]

(***************************************************************************)
(* text-processing: trims the whitespace that ends the last line.          *)
(***************************************************************************)
IsBlank(ch) == ch = " " \/ ch = "\t"

RECURSIVE trimEndOnLastLineIfWhitespaceOnly(_)
trimEndOnLastLineIfWhitespaceOnly(text) ==
    IF Len(text) > 0 /\ IsBlank(text[Len(text)])
    THEN trimEndOnLastLineIfWhitespaceOnly(SubSeq(text, 1, Len(text) - 1))
    ELSE text

(***************************************************************************)
(* cacheKey                                                                *)
(***************************************************************************)
CACHE_KEY_DOCUMENT_CONTENT_PREFIX_SUFFIX_LENGTH == 200

SEPARATOR == <<"<", "|", ">">>

\* (mutation) the whole prefix goes into the key
cacheKey_WholePrefix(d) ==
    d.languageId \o SEPARATOR \o d.prefix \o SEPARATOR
        \o SliceTo(d.suffix, CACHE_KEY_DOCUMENT_CONTENT_PREFIX_SUFFIX_LENGTH)

\* (mutation) the key leaves the language out
cacheKey_NoLanguage(d) ==
    SEPARATOR
        \o SliceLast(d.prefix, CACHE_KEY_DOCUMENT_CONTENT_PREFIX_SUFFIX_LENGTH)
        \o SEPARATOR
        \o SliceTo(d.suffix, CACHE_KEY_DOCUMENT_CONTENT_PREFIX_SUFFIX_LENGTH)

cacheKey(d) ==
    d.languageId \o SEPARATOR
        \o SliceLast(d.prefix, CACHE_KEY_DOCUMENT_CONTENT_PREFIX_SUFFIX_LENGTH)
        \o SEPARATOR
        \o SliceTo(d.suffix, CACHE_KEY_DOCUMENT_CONTENT_PREFIX_SUFFIX_LENGTH)

(***************************************************************************)
(* The LRUCache the class wraps: a sequence of [key, value] entries, the   *)
(* least recently used first.                                              *)
(***************************************************************************)
max == 500

undefined == [undefined |-> TRUE]

LruKeys(c) == {c[n].key : n \in 1 .. Len(c)}

LruHas(c, key) == key \in LruKeys(c)

LruIndex(c, key) == CHOOSE n \in 1 .. Len(c) : c[n].key = key

\* the value under key, recency untouched
LruPeek(c, key) == IF LruHas(c, key) THEN c[LruIndex(c, key)].value ELSE undefined

LruWithout(c, key) == SelectSeq(c, LAMBDA e : e.key # key)

\* the cache after cache.get(key): a hit becomes the most recently used
LruTouch(c, key) ==
    IF LruHas(c, key)
    THEN Append(LruWithout(c, key), c[LruIndex(c, key)])
    ELSE c

\* (mutation) the oldest entry goes only when the cache is already over max
LruSet_EvictLate(c, key, value) ==
    IF LruHas(c, key)
    THEN Append(LruWithout(c, key), [key |-> key, value |-> value])
    ELSE IF Len(c) > max
         THEN Append(Tail(c), [key |-> key, value |-> value])
         ELSE Append(c, [key |-> key, value |-> value])

\* (mutation) the entry used last goes when the cache is full
LruSet_EvictNewest(c, key, value) ==
    IF LruHas(c, key)
    THEN Append(LruWithout(c, key), [key |-> key, value |-> value])
    ELSE IF Len(c) >= max
         THEN Append(SubSeq(c, 1, Len(c) - 1), [key |-> key, value |-> value])
         ELSE Append(c, [key |-> key, value |-> value])

\* the cache after cache.set(key, value)
LruSet(c, key, value) ==
    IF LruHas(c, key)
    THEN Append(LruWithout(c, key), [key |-> key, value |-> value])
    ELSE IF Len(c) >= max
         THEN Append(Tail(c), [key |-> key, value |-> value])
         ELSE Append(c, [key |-> key, value |-> value])

(***************************************************************************)
(* CompletionsCache                                                        *)
(***************************************************************************)
\* (mutation) the looked-up prefix is never trimmed
getKey_NeverTrims(request) == cacheKey(request.documentState)

\* (mutation) the looked-up prefix is trimmed whatever isExactPrefixOnly says
getKey_AlwaysTrims(request) ==
    LET d == request.documentState
    IN  cacheKey([prefix |-> trimEndOnLastLineIfWhitespaceOnly(d.prefix),
                  suffix |-> d.suffix, languageId |-> d.languageId])

\* get: the returned value and the cache after the call
getKey(request) ==
    LET d == request.documentState
        trimmedPrefix == IF request.isExactPrefixOnly
                         THEN d.prefix
                         ELSE trimEndOnLastLineIfWhitespaceOnly(d.prefix)
    IN  cacheKey([prefix |-> trimmedPrefix, suffix |-> d.suffix,
                  languageId |-> d.languageId])

\* (mutation) a hit is read without refreshing its recency
get_Peek(c, request) ==
    [result |-> LruPeek(c, getKey(request)), cache |-> c]

\* (mutation) a miss leaves an entry without completions under the key
get_MissCreatesEntry(c, request) ==
    [result |-> LruPeek(c, getKey(request)),
     cache |-> IF LruHas(c, getKey(request))
               THEN LruTouch(c, getKey(request))
               ELSE LruSet(c, getKey(request), [logId |-> "", completions |-> <<>>])]

get(c, request) ==
    [result |-> LruPeek(c, getKey(request)), cache |-> LruTouch(c, getKey(request))]

\* (mutation) the new completion replaces the stored ones
insertCompletion_Replace(c, key, logId, completion) ==
    LruSet(c, key, [logId |-> logId, completions |-> <<completion>>])

\* (mutation) an entry that exists keeps the logId it was created with
insertCompletion_KeepLogId(c, key, logId, completion) ==
    IF LruHas(c, key)
    THEN LruSet(c, key, [logId |-> LruPeek(c, key).logId,
                         completions |-> Append(LruPeek(c, key).completions,
                                                completion)])
    ELSE LruSet(c, key, [logId |-> logId, completions |-> <<completion>>])

\* (mutation) the new completion goes in front of the stored ones
insertCompletion_Prepend(c, key, logId, completion) ==
    LET existingCompletions ==
            IF LruHas(c, key) THEN LruPeek(c, key).completions ELSE <<>>
    IN  LruSet(c, key, [logId |-> logId,
                        completions |-> <<completion>> \o existingCompletions])

insertCompletion(c, key, logId, completion) ==
    LET afterHas == IF LruHas(c, key) THEN LruTouch(c, key) ELSE c
        existingCompletions ==
            IF LruHas(c, key) THEN LruPeek(c, key).completions ELSE <<>>
        cachedCompletion == [logId |-> logId,
                             completions |-> Append(existingCompletions, completion)]
    IN  LruSet(afterHas, key, cachedCompletion)

\* (mutation) the whole length where there is no newline
maxCharsAppended_WholeLength(content) ==
    LET from == IF Len(content) > 0 /\ content[1] = NL THEN 1 ELSE 0
        at == indexOf(content, NL, from)
    IN  IF at = -1 THEN Len(content) ELSE at

\* (mutation) the search for the newline starts at index 0 whatever c starts with
maxCharsAppended_FromStart(content) ==
    LET at == indexOf(content, NL, 0)
    IN  IF at = -1 THEN Len(content) - 1 ELSE at

\* (mutation) one character past the newline
maxCharsAppended_PastNewline(content) ==
    LET from == IF Len(content) > 0 /\ content[1] = NL THEN 1 ELSE 0
        at == indexOf(content, NL, from)
    IN  IF at = -1 THEN Len(content) - 1 ELSE at + 1

\* (mutation) the loop stops before the newline: i < maxCharsAppended
maxCharsAppended_BeforeNewline(content) ==
    LET from == IF Len(content) > 0 /\ content[1] = NL THEN 1 ELSE 0
        at == indexOf(content, NL, from)
    IN  IF at = -1 THEN Len(content) - 1 ELSE at - 1

\* the last i of the for loop of add
maxCharsAppended(content) ==
    LET from == IF Len(content) > 0 /\ content[1] = NL THEN 1 ELSE 0
        at == indexOf(content, NL, from)
    IN  IF at = -1 THEN Len(content) - 1 ELSE at

\* (mutation) the typed-through keys are built on the untrimmed prefix
insertionsFor_UntrimmedKeys(documentState, completion) ==
    LET trimmedPrefix == trimEndOnLastLineIfWhitespaceOnly(documentState.prefix)
        exact == IF trimmedPrefix # documentState.prefix
                 THEN <<[key |-> cacheKey(documentState), completion |-> completion]>>
                 ELSE <<>>
        m == maxCharsAppended(completion.content)
        loop == [n \in 1 .. (m + 1) |->
                    [key |-> cacheKey([documentState EXCEPT
                                 !.prefix = documentState.prefix
                                            \o SliceTo(completion.content, n - 1)]),
                     completion |-> [content |-> SliceFrom(completion.content, n - 1)]]]
    IN  exact \o loop

\* (mutation) nothing is stored under the untrimmed prefix
insertionsFor_NoExact(documentState, completion) ==
    LET trimmedPrefix == trimEndOnLastLineIfWhitespaceOnly(documentState.prefix)
        m == maxCharsAppended(completion.content)
    IN  [n \in 1 .. (m + 1) |->
            [key |-> cacheKey([documentState EXCEPT
                         !.prefix = trimmedPrefix
                                    \o SliceTo(completion.content, n - 1)]),
             completion |-> [content |-> SliceFrom(completion.content, n - 1)]]]

\* the insertCompletion calls add makes for one completion, in order
insertionsFor(documentState, completion) ==
    LET trimmedPrefix == trimEndOnLastLineIfWhitespaceOnly(documentState.prefix)
        prefixHasTrailingWhitespaceOnLastLine == trimmedPrefix # documentState.prefix
        exact == IF prefixHasTrailingWhitespaceOnLastLine
                 THEN <<[key |-> cacheKey(documentState), completion |-> completion]>>
                 ELSE <<>>
        m == maxCharsAppended(completion.content)
        loop == [n \in 1 .. (m + 1) |->
                    [key |-> cacheKey([documentState EXCEPT
                                 !.prefix = trimmedPrefix
                                            \o SliceTo(completion.content, n - 1)]),
                     completion |-> [content |-> SliceFrom(completion.content, n - 1)]]]
    IN  exact \o loop

RECURSIVE insertionsOf(_, _)
insertionsOf(documentState, completions) ==
    IF completions = <<>> THEN <<>>
    ELSE insertionsFor(documentState, Head(completions))
            \o insertionsOf(documentState, Tail(completions))

\* the cache after the calls insertions[from .. to], made in that order (the
\* range is halved, and the first half is measured before the second starts,
\* so that a long first line does not nest one evaluation per character)
RECURSIVE insertRange(_, _, _, _, _)
insertRange(c, logId, insertions, from, to) ==
    IF from > to THEN c
    ELSE IF from = to
         THEN insertCompletion(c, insertions[from].key, logId,
                               insertions[from].completion)
         ELSE LET mid == (from + to) \div 2
                  half == insertRange(c, logId, insertions, from, mid)
              IN  IF Len(half) >= 0
                  THEN insertRange(half, logId, insertions, mid + 1, to)
                  ELSE half

insertAll(c, logId, insertions) ==
    insertRange(c, logId, insertions, 1, Len(insertions))

add(c, logId, documentState, completions) ==
    insertAll(c, logId, insertionsOf(documentState, completions))

\* (mutation) clear spares the most recently used entry
clear_KeepsNewest(c) == IF c = <<>> THEN <<>> ELSE <<c[Len(c)]>>

clear(c) == <<>>

(***************************************************************************)
(* The operations as actions.  log records each call: its arguments, what  *)
(* it returned and how many keys the cache held before it.                 *)
(***************************************************************************)
MaxOps == 2

LogIds == {"id1", "id2"}

Add(logId, documentState, completions) ==
    /\ ops < MaxOps
    /\ cache' = add(cache, logId, documentState, completions)
    /\ log' = Append(log, [op |-> "add", logId |-> logId,
                            documentState |-> documentState,
                            completions |-> completions, sizeBefore |-> Len(cache)])
    /\ ops' = ops + 1
    /\ UNCHANGED others

\* (mutation) the call of get leaves the recency order as it is
Get_KeepsOrder(request) ==
    /\ ops < MaxOps
    /\ cache' = cache
    /\ log' = Append(log, [op |-> "get", request |-> request,
                            result |-> get(cache, request).result,
                            sizeBefore |-> Len(cache)])
    /\ ops' = ops + 1
    /\ UNCHANGED others

Get(request) ==
    /\ ops < MaxOps
    /\ cache' = get(cache, request).cache
    /\ log' = Append(log, [op |-> "get", request |-> request,
                            result |-> get(cache, request).result,
                            sizeBefore |-> Len(cache)])
    /\ ops' = ops + 1
    /\ UNCHANGED others

Clear ==
    /\ ops < MaxOps
    /\ cache' = clear(cache)
    /\ log' = Append(log, [op |-> "clear", sizeBefore |-> Len(cache)])
    /\ ops' = ops + 1
    /\ UNCHANGED others

Doc(prefix, suffix, languageId) ==
    [prefix |-> prefix, suffix |-> suffix, languageId |-> languageId]

Completion(content) == [content |-> content]

Requests(docs) == [documentState : docs, isExactPrefixOnly : BOOLEAN]

\* the repository picker's components before they are constructed
RestInit ==
    /\ fetcher = undefined
    /\ mapper = undefined
    /\ remoteSearch = undefined

\* the other components before anything was called on them
OthersInit ==
    /\ sync = undefined
    /\ storage = undefined
    /\ clientSettings_ = undefined
    /\ publisher = [providers |-> <<>>, providerStatusMap |-> [entries |-> <<>>]]
    /\ heap = <<>>
    /\ RestInit

Init ==
    /\ cache = <<>>
    /\ log = <<[op |-> "new", sizeBefore |-> 0]>>
    /\ ops = 0
    /\ OthersInit

(***************************************************************************)
(* Spec: one editing position, typed through.                              *)
(***************************************************************************)
TS == <<"t", "s">>
GO == <<"g", "o">>

Docs == { Doc(<<"a", NL>>, <<>>, TS), Doc(<<"a", NL, " ">>, <<>>, TS) }

\* the documents looked up: those, and the first in another language
GetDocs == Docs \cup { Doc(<<"a", NL>>, <<>>, GO) }

CompletionLists ==
    { <<Completion(<<"a", NL, "b">>)>>,
      <<Completion(<<" ", NL, "b">>)>>,
      <<Completion(<<"a", "b">>)>>,
      <<Completion(<<>>)>>,
      <<Completion(<<NL, " ", "a">>)>>,
      <<Completion(<<NL>>)>>,
      <<Completion(<<NL, "a", NL, "b">>)>>,
      <<Completion(<<"a", NL, "b">>), Completion(<<"a", "b">>)>> }

AddStep == \E logId \in LogIds, d \in Docs, cs \in CompletionLists : Add(logId, d, cs)

GetStep == \E r \in Requests(GetDocs) : Get(r)

Next == AddStep \/ GetStep \/ Clear

Spec == Init /\ [][Next]_vars

(***************************************************************************)
(* SpecWindow: prefixes around the 200-character window of the key, made   *)
(* of short lines.                                                         *)
(***************************************************************************)
LongPrefix(n) == Repeat(<<"a", NL>>, n)

WindowDocs ==
    { Doc(<<"a", NL>>, <<>>, TS),
      Doc(LongPrefix(CACHE_KEY_DOCUMENT_CONTENT_PREFIX_SUFFIX_LENGTH - 2), <<>>, TS),
      Doc(LongPrefix(CACHE_KEY_DOCUMENT_CONTENT_PREFIX_SUFFIX_LENGTH), <<>>, TS) }

AddStepWindow ==
    \E logId \in LogIds, d \in WindowDocs, cs \in CompletionLists : Add(logId, d, cs)

GetStepWindow == \E r \in Requests(WindowDocs) : Get(r)

NextWindow == AddStepWindow \/ GetStepWindow \/ Clear

SpecWindow == Init /\ [][NextWindow]_vars

(***************************************************************************)
(* SpecLRU: an instance whose cache four earlier adds have filled to its   *)
(* capacity, one first line each.                                          *)
(***************************************************************************)
FillPrefixes == << <<"p">>, <<"q">>, <<"r">>, <<"s">> >>

FillDoc(n) == Doc(FillPrefixes[n], <<>>, TS)

FillCompletions == <<Completion(Repeat(<<"z">>, max \div Len(FillPrefixes)))>>

RECURSIVE Filled(_)
Filled(n) ==
    IF n = 0 THEN [cache |-> <<>>, log |-> <<[op |-> "new", sizeBefore |-> 0]>>]
    ELSE LET f == Filled(n - 1)
         IN  [cache |-> add(f.cache, "id0", FillDoc(n), FillCompletions),
              log |-> Append(f.log, [op |-> "add", logId |-> "id0",
                                     documentState |-> FillDoc(n),
                                     completions |-> FillCompletions,
                                     sizeBefore |-> Len(f.cache)])]

InitLRU ==
    /\ cache = Filled(Len(FillPrefixes)).cache
    /\ log = Filled(Len(FillPrefixes)).log
    /\ ops = 0
    /\ OthersInit

LruDocs == { FillDoc(1), Doc(<<"a", NL>>, <<>>, TS) }

LruCompletionLists ==
    { <<Completion(<<"a", "b">>)>>, <<Completion(<<"z", NL, "b">>)>> }

AddStepLRU ==
    \E logId \in LogIds, d \in LruDocs, cs \in LruCompletionLists : Add(logId, d, cs)

GetStepLRU == \E r \in Requests(LruDocs) : Get(r)

NextLRU == AddStepLRU \/ GetStepLRU \/ Clear

SpecLRU == InitLRU /\ [][NextLRU]_vars

(***************************************************************************)
(* SpecKey: document states that agree inside the key's windows and differ *)
(* outside, and document states that hold the separator.                   *)
(***************************************************************************)
KeyDocs ==
    { Doc(LongPrefix(CACHE_KEY_DOCUMENT_CONTENT_PREFIX_SUFFIX_LENGTH), <<>>, TS),
      Doc(<<"x">> \o LongPrefix(CACHE_KEY_DOCUMENT_CONTENT_PREFIX_SUFFIX_LENGTH),
          <<>>, TS),
      Doc(<<"y">> \o LongPrefix(CACHE_KEY_DOCUMENT_CONTENT_PREFIX_SUFFIX_LENGTH),
          <<>>, TS),
      Doc(<<"a", NL>>,
          Repeat(<<"b">>, CACHE_KEY_DOCUMENT_CONTENT_PREFIX_SUFFIX_LENGTH) \o <<"x">>,
          TS),
      Doc(<<"a", NL>>,
          Repeat(<<"b">>, CACHE_KEY_DOCUMENT_CONTENT_PREFIX_SUFFIX_LENGTH) \o <<"y">>,
          TS),
      Doc(<<"a", NL>>,
          Repeat(<<"b">>, CACHE_KEY_DOCUMENT_CONTENT_PREFIX_SUFFIX_LENGTH) \o <<"y">>,
          GO),
      Doc(SEPARATOR, <<>>, TS),
      Doc(<<>>, SEPARATOR, TS) }

KeyCompletionLists == { <<Completion(<<"z">>)>> }

AddStepKey ==
    \E logId \in LogIds, d \in KeyDocs, cs \in KeyCompletionLists : Add(logId, d, cs)

GetStepKey == \E r \in Requests(KeyDocs) : Get(r)

NextKey == AddStepKey \/ GetStepKey \/ Clear

SpecKey == Init /\ [][NextKey]_vars

(***************************************************************************)
(* What the claims speak of.                                               *)
(***************************************************************************)
\* what get would return now for the document state d
Result(d, isExactPrefixOnly) ==
    get(cache, [documentState |-> d, isExactPrefixOnly |-> isExactPrefixOnly]).result

IsHit(r) == r # undefined

\* r is a hit and one of its completions has this content
Contains(r, content) ==
    /\ IsHit(r)
    /\ \E k \in 1 .. Len(r.completions) : r.completions[k].content = content

NothingToTrim(prefix) == trimEndOnLastLineIfWhitespaceOnly(prefix) = prefix

\* d with the first i characters of content typed
Typed(d, content, i) == [d EXCEPT !.prefix = d.prefix \o SliceTo(content, i)]

\* the call just made was add with the single completion c
AddedOne == last.op = "add" /\ Len(last.completions) = 1

AddedContent == last.completions[1].content

\* the add just made evicted nothing
SpareCapacity ==
    last.sizeBefore + Len(insertionsOf(last.documentState, last.completions)) <= max

\* the index of the newline that ends the first-line span of content, or -1
SpanEnd(content) ==
    indexOf(content, NL, IF Len(content) > 0 /\ content[1] = NL THEN 1 ELSE 0)

(***************************************************************************)
(* C1                                                                      *)
(***************************************************************************)
\* C1 as stated: after add of one completion c with its first newline at
\* index N > 0 to a prefix P with nothing to trim, a get (isExactPrefixOnly
\* omitted) of P + c[0:i] hits and holds c[i:], for every i in 0..N.
C1_Original ==
    (AddedOne /\ SpareCapacity /\ NothingToTrim(last.documentState.prefix)
        /\ indexOf(AddedContent, NL, 0) > 0)
    => \A i \in 0 .. indexOf(AddedContent, NL, 0) :
          Contains(Result(Typed(last.documentState, AddedContent, i), FALSE),
                   SliceFrom(AddedContent, i))

\* C1 (amended): the same for a get with isExactPrefixOnly true, and for a get
\* without it when P + c[0:i] has no trailing whitespace to trim.
C1_IncrementalHit ==
    (AddedOne /\ SpareCapacity /\ NothingToTrim(last.documentState.prefix)
        /\ indexOf(AddedContent, NL, 0) > 0)
    => \A i \in 0 .. indexOf(AddedContent, NL, 0) :
          LET q == Typed(last.documentState, AddedContent, i)
          IN  /\ Contains(Result(q, TRUE), SliceFrom(AddedContent, i))
              /\ NothingToTrim(q.prefix)
                   => Contains(Result(q, FALSE), SliceFrom(AddedContent, i))

C1_Witness ==
    /\ AddedOne /\ NothingToTrim(last.documentState.prefix)
    /\ indexOf(AddedContent, NL, 0) = 1
    /\ Len(AddedContent) = 3
    /\ Contains(Result(Typed(last.documentState, AddedContent, 1), FALSE),
                SliceFrom(AddedContent, 1))
    /\ Result(Typed(last.documentState, AddedContent, 1), FALSE).completions
         = <<Completion(SliceFrom(AddedContent, 1))>>

(***************************************************************************)
(* C2                                                                      *)
(***************************************************************************)
\* C2 as stated: after add of one completion c of length N with no newline, a
\* get of P + c (all of c typed) hits with the remaining content "" (for
\* N = 0: a get of P hits).
C2_Original ==
    (AddedOne /\ SpareCapacity /\ NothingToTrim(last.documentState.prefix)
        /\ indexOf(AddedContent, NL, 0) = -1)
    => Contains(Result(Typed(last.documentState, AddedContent, Len(AddedContent)),
                       FALSE), <<>>)

\* C2 (amended): add of one completion c of length N with no newline, to a
\* prefix P with nothing to trim and with spare capacity, appends c[i:] under
\* the key of P + c[0:i] for every i in 0..N-1 and changes no other key: the
\* offset N (remaining content "") is not cached, and for N = 0 the cache is
\* left as it was.
C2_EveryPositionButTheEnd ==
    [][ (last'.op = "add" /\ Len(last'.completions) = 1 /\ SpareCapacity'
            /\ NothingToTrim(last'.documentState.prefix)
            /\ indexOf(last'.completions[1].content, NL, 0) = -1)
        => LET d == last'.documentState
               c == last'.completions[1].content
               touched == {cacheKey(Typed(d, c, i)) : i \in 0 .. (Len(c) - 1)}
           IN  /\ \A i \in 0 .. (Len(c) - 1) :
                     LET e == LruPeek(cache', cacheKey(Typed(d, c, i)))
                     IN  /\ IsHit(e)
                         /\ Contains(e, SliceFrom(c, i))
               /\ \A k \in LruKeys(cache) \cup LruKeys(cache') :
                     k \notin touched => LruPeek(cache', k) = LruPeek(cache, k)
               /\ Len(c) = 0 => cache' = cache ]_vars

C2_Witness ==
    /\ AddedOne /\ NothingToTrim(last.documentState.prefix)
    /\ indexOf(AddedContent, NL, 0) = -1
    /\ Len(AddedContent) = 2
    /\ Len(cache) = 2
    /\ Contains(Result(Typed(last.documentState, AddedContent, 1), FALSE),
                SliceFrom(AddedContent, 1))
    /\ ~IsHit(Result(Typed(last.documentState, AddedContent, 2), FALSE))

(***************************************************************************)
(* C3                                                                      *)
(***************************************************************************)
\* the last index inside the span that follows a leading newline
LastInSpan(content) ==
    IF indexOf(content, NL, 1) = -1 THEN Len(content) - 1
    ELSE indexOf(content, NL, 1) - 1

StartsWithNewline(content) == Len(content) > 0 /\ content[1] = NL

C4_Original ==
    (AddedOne /\ last.sizeBefore = 0 /\ SpanEnd(AddedContent) # -1)
    => \A j \in (SpanEnd(AddedContent) + 1) .. Len(AddedContent) :
          \A exact \in BOOLEAN :
             ~IsHit(Result(Typed(last.documentState, AddedContent, j), exact))

\* C4 (amended): the same for every j > N for which P + c[0:j] is no longer
\* than the 200 characters of the key's prefix window.
C4_NothingPastFirstLine ==
    (AddedOne /\ last.sizeBefore = 0 /\ SpanEnd(AddedContent) # -1)
    => \A j \in (SpanEnd(AddedContent) + 1) .. Len(AddedContent) :
          \A exact \in BOOLEAN :
             Len(last.documentState.prefix) + j
                    <= CACHE_KEY_DOCUMENT_CONTENT_PREFIX_SUFFIX_LENGTH
                => ~IsHit(Result(Typed(last.documentState, AddedContent, j), exact))

C4_Witness ==
    /\ AddedOne /\ last.sizeBefore = 0
    /\ SpanEnd(AddedContent) = 1 /\ Len(AddedContent) = 3
    /\ Len(last.documentState.prefix) + 2
         = CACHE_KEY_DOCUMENT_CONTENT_PREFIX_SUFFIX_LENGTH
    /\ IsHit(Result(Typed(last.documentState, AddedContent, 1), FALSE))
    /\ ~IsHit(Result(Typed(last.documentState, AddedContent, 2), FALSE))
    /\ ~IsHit(Result(Typed(last.documentState, AddedContent, 3), FALSE))

(***************************************************************************)
(* C5, C6                                                                  *)
(***************************************************************************)
\* the keys a call touched, in the order it touched them
Mentions(call) ==
    IF call.op = "add"
    THEN LET ins == insertionsOf(call.documentState, call.completions)
         IN  [n \in 1 .. Len(ins) |-> ins[n].key]
    ELSE IF call.op = "get" /\ IsHit(call.result)
         THEN <<getKey(call.request)>>
         ELSE <<>>

\* the completions stored under key in the cache c, none when it has no entry
StoredUnder(c, key) == IF LruHas(c, key) THEN LruPeek(c, key).completions ELSE <<>>

\* the completions the call made inserts under key, in the order of insertion
RECURSIVE CompletionsFor(_, _)
CompletionsFor(insertions, key) ==
    IF insertions = <<>> THEN <<>>
    ELSE (IF Head(insertions).key = key THEN <<Head(insertions).completion>> ELSE <<>>)
            \o CompletionsFor(Tail(insertions), key)

InsertedUnder(call, key) ==
    IF call.op = "add"
    THEN CompletionsFor(insertionsOf(call.documentState, call.completions), key)
    ELSE <<>>

IsPrefixOf(s, t) == Len(s) <= Len(t) /\ SubSeq(t, 1, Len(s)) = s

IsSuffixOf(s, t) == Len(s) <= Len(t) /\ SubSeq(t, Len(t) - Len(s) + 1, Len(t)) = s

\* C7: the cache never holds more than max (500) keys, each once; and every
\* call leaves each entry it does not insert under either whole (the same
\* logId and completions) or gone, while an entry it inserts under holds what
\* was stored there followed by what the call inserted (or, evicted and made
\* anew, only what the call inserted).
C7_Capacity ==
    /\ [](Len(cache) <= max /\ Cardinality(LruKeys(cache)) = Len(cache))
    /\ [][ LET touched == {Mentions(last')[n] : n \in 1 .. Len(Mentions(last'))}
               before == {cache[n] : n \in 1 .. Len(cache)}
           IN  \A n \in 1 .. Len(cache') :
                  IF last'.op # "add" \/ cache'[n].key \notin touched
                  THEN cache'[n] \in before
                  ELSE LET k == cache'[n].key
                           inserted == InsertedUnder(last', k)
                       IN  \/ cache'[n].value.completions
                                 = StoredUnder(cache, k) \o inserted
                           \/ /\ IsSuffixOf(cache'[n].value.completions, inserted)
                              /\ cache'[n].value.completions # <<>> ]_vars

\* a full cache took an add of new keys and dropped its oldest entry for it
C7_Witness ==
    /\ last.op = "add" /\ last.sizeBefore = max /\ Len(cache) = max
    /\ IsHit(Result(last.documentState, TRUE))
    /\ Len(Result(last.documentState, TRUE).completions) = 1
    /\ ~LruHas(cache, cacheKey(FillDoc(1)))

(***************************************************************************)
(* C8                                                                      *)
(***************************************************************************)
\* the keys touched since the cache was last empty by construction or clear
RECURSIVE TouchesUpTo(_)
TouchesUpTo(n) ==
    IF n = 0 \/ log[n].op \in {"new", "clear"} THEN <<>>
    ELSE TouchesUpTo(n - 1) \o Mentions(log[n])

\* t[from .. to] with only the last occurrence of each key kept
RECURSIVE KeepLast(_, _, _)
KeepLast(t, from, to) ==
    IF from > to THEN <<>>
    ELSE IF from = to THEN <<t[from]>>
    ELSE LET mid == (from + to) \div 2
             later == KeepLast(t, mid + 1, to)
             laterKeys == {later[n] : n \in 1 .. Len(later)}
         IN  SelectSeq(KeepLast(t, from, mid), LAMBDA k : k \notin laterKeys)
                \o later

\* the keys touched, each once, the one touched longest ago first
RecencyOrder ==
    LET touches == TouchesUpTo(Len(log)) IN KeepLast(touches, 1, Len(touches))

\* C8: the cache holds the max (or fewer) keys touched last, by an insertion
\* of add or a hit of get, in the order of their last touch: what an
\* insertion over capacity evicts is the key whose last touch is the oldest.
C8_EvictsLeastRecentlyTouched ==
    [n \in 1 .. Len(cache) |-> cache[n].key] = SliceLast(RecencyOrder, max)

\* a get hit the oldest key of a full cache, and the add of new keys that
\* followed evicted the next oldest keys and kept it
C8_Witness ==
    /\ ops = 2 /\ last.op = "add" /\ last.sizeBefore = max /\ Len(cache) = max
    /\ log[Len(log) - 1].op = "get"
    /\ getKey(log[Len(log) - 1].request) = cacheKey(FillDoc(1))
    /\ IsHit(log[Len(log) - 1].result)
    /\ LruHas(cache, cacheKey(FillDoc(1)))
    /\ ~LruHas(cache, cacheKey(Typed(FillDoc(1), <<"z", "z">>, 1)))
    /\ ~LruHas(cache, cacheKey(Typed(FillDoc(1), <<"z", "z">>, 2)))

(***************************************************************************)
(* C9, C10                                                                 *)
(***************************************************************************)
\* what the key is meant to tell apart: the language and the two windows
Triple(d) ==
    <<d.languageId,
      SliceLast(d.prefix, CACHE_KEY_DOCUMENT_CONTENT_PREFIX_SUFFIX_LENGTH),
      SliceTo(d.suffix, CACHE_KEY_DOCUMENT_CONTENT_PREFIX_SUFFIX_LENGTH)>>

C10_Original ==
    (last.op = "add" /\ last.sizeBefore = 0)
    => \A d \in KeyDocs :
          Triple(d) # Triple(last.documentState)
             => /\ cacheKey(d) # cacheKey(last.documentState)
                /\ ~IsHit(Result(d, TRUE))

(***************************************************************************)
(* The calls of the log made again on another instance.                    *)
(***************************************************************************)
\* the cache after the call made on the cache c
Apply(c, call) ==
    IF call.op = "add"
    THEN add(c, call.logId, call.documentState, call.completions)
    ELSE IF call.op = "get" THEN get(c, call.request).cache
    ELSE IF call.op = "clear" THEN clear(c)
    ELSE <<>>

(***************************************************************************)
(* C11                                                                     *)
(***************************************************************************)
\* the call is no add for a language other than languageId
NotOfOtherLanguage(languageId, call) ==
    call.op = "add" => call.documentState.languageId = languageId

\* the cache of a new instance after the calls log[1 .. n] without the adds
\* for languages other than languageId
RECURSIVE WithoutOtherLanguagesUpTo(_, _)
WithoutOtherLanguagesUpTo(languageId, n) ==
    IF n = 0 THEN <<>>
    ELSE LET before == WithoutOtherLanguagesUpTo(languageId, n - 1)
         IN  IF Len(before) >= 0 /\ NotOfOtherLanguage(languageId, log[n])
             THEN Apply(before, log[n])
             ELSE before

\* the cache had the adds for languages other than languageId never been made
WithoutOtherLanguages(languageId) == WithoutOtherLanguagesUpTo(languageId, Len(log))

\* C11: completions are cached per language: a get for a document state of
\* language L returns exactly what it would return had no add for another
\* language been made, so that after adds for (P, S, L1) alone a get for
\* (P, S, L2), L2 # L1, misses.
C11_PerLanguage ==
    \A d \in KeyDocs : \A exact \in BOOLEAN :
       /\ Result(d, exact)
            = LruPeek(WithoutOtherLanguages(d.languageId),
                      getKey([documentState |-> d, isExactPrefixOnly |-> exact]))
       /\ (\A n \in 1 .. Len(log) : log[n].op = "add"
                => log[n].documentState.languageId # d.languageId)
            => ~IsHit(Result(d, exact))

\* one prefix and suffix were added for two languages, and each language
\* gets its own entry back
C11_Witness ==
    /\ ops = 2 /\ log[2].op = "add" /\ last.op = "add"
    /\ log[2].logId = "id1" /\ last.logId = "id2"
    /\ log[2].documentState.languageId = TS
    /\ last.documentState = [log[2].documentState EXCEPT !.languageId = GO]
    /\ IsHit(Result(log[2].documentState, FALSE))
    /\ Result(log[2].documentState, FALSE).logId = "id1"
    /\ Len(Result(log[2].documentState, FALSE).completions) = 1
    /\ IsHit(Result(last.documentState, FALSE))
    /\ Result(last.documentState, FALSE).logId = "id2"

(***************************************************************************)
(* SpecTrim: one position with different amounts of whitespace typed on    *)
(* the last line, and completions that start with whitespace or are empty. *)
(***************************************************************************)
TrimDocs ==
    { Doc(<<"a", NL>>, <<>>, TS),
      Doc(<<"a", NL, " ">>, <<>>, TS),
      Doc(<<"a", NL, " ", " ">>, <<>>, TS) }

TrimCompletionLists ==
    { <<Completion(<<"b">>)>>,
      <<Completion(<<" ", "b">>)>>,
      <<Completion(<<>>)>> }

AddStepTrim ==
    \E logId \in LogIds, d \in TrimDocs, cs \in TrimCompletionLists : Add(logId, d, cs)

GetStepTrim == \E r \in Requests(TrimDocs) : Get(r)

NextTrim == AddStepTrim \/ GetStepTrim \/ Clear

SpecTrim == Init /\ [][NextTrim]_vars

(***************************************************************************)
(* C12                                                                     *)
(***************************************************************************)
\* d with its prefix trimmed
Trimmed(d) == [d EXCEPT !.prefix = trimEndOnLastLineIfWhitespaceOnly(d.prefix)]

\* d and q are one position but for the whitespace that ends the last line
SameTrimmed(d, q) == Trimmed(q) = Trimmed(d)

\* C12 as stated: after add of a completion c to a prefix P with trailing
\* whitespace to trim, a get without isExactPrefixOnly hits for trim(P) and
\* for every Q with trim(Q) = trim(P), and holds c.
C12_Original ==
    (AddedOne /\ SpareCapacity /\ ~NothingToTrim(last.documentState.prefix))
    => /\ Contains(Result(Trimmed(last.documentState), FALSE), AddedContent)
       /\ \A q \in TrimDocs :
             SameTrimmed(last.documentState, q)
                => Contains(Result(q, FALSE), AddedContent)

\* C12 (amended): the same when c is not empty; the add of an empty
\* completion stores it under the untrimmed P alone and leaves what is
\* stored under trim(P) as it was.
C12_TrimOnAddAndGet ==
    [][ (last'.op = "add" /\ Len(last'.completions) = 1 /\ SpareCapacity'
            /\ ~NothingToTrim(last'.documentState.prefix))
        => LET d == last'.documentState
               c == last'.completions[1].content
           IN  /\ c # <<>>
                    => \A q \in TrimDocs \cup {Trimmed(d)} :
                          SameTrimmed(d, q)
                             => Contains(Result(q, FALSE)', c)
               /\ c = <<>>
                    => LruPeek(cache', cacheKey(Trimmed(d)))
                          = LruPeek(cache, cacheKey(Trimmed(d))) ]_vars

\* a completion was added after two blanks, and the lookups after none and
\* after one blank return it
C12_Witness ==
    /\ AddedOne /\ last.sizeBefore = 0
    /\ last.documentState.prefix = <<"a", NL, " ", " ">>
    /\ AddedContent = <<"b">>
    /\ Result(Doc(<<"a", NL>>, <<>>, TS), FALSE).completions = <<Completion(<<"b">>)>>
    /\ Result(Doc(<<"a", NL, " ">>, <<>>, TS), FALSE).completions
         = <<Completion(<<"b">>)>>

(***************************************************************************)
(* C13                                                                     *)
(***************************************************************************)
\* q is p with one or more spaces typed after it
FollowedBySpaces(p, q) ==
    /\ Len(q) > Len(p)
    /\ SubSeq(q, 1, Len(p)) = p
    /\ \A n \in (Len(p) + 1) .. Len(q) : q[n] = " "

\* C13 as stated: if a get (of either kind) with prefix P hits, a get without
\* isExactPrefixOnly with P followed by one or more spaces hits and returns
\* the same entry.
C13_Original ==
    \A d \in TrimDocs : \A exact \in BOOLEAN :
       IsHit(Result(d, exact))
          => \A q \in TrimDocs :
                (FollowedBySpaces(d.prefix, q.prefix) /\ SameTrimmed(d, q))
                   => Result(q, FALSE) = Result(d, exact)

\* C13 (amended): the same when the get that hits for P is one without
\* isExactPrefixOnly, or one with isExactPrefixOnly for a P that has no
\* trailing whitespace to trim.
C13_TypedSpacesStillHit ==
    \A d \in TrimDocs : \A exact \in BOOLEAN :
       (IsHit(Result(d, exact)) /\ (exact => NothingToTrim(d.prefix)))
          => \A q \in TrimDocs :
                (FollowedBySpaces(d.prefix, q.prefix) /\ SameTrimmed(d, q))
                   => /\ IsHit(Result(q, FALSE))
                      /\ Result(q, FALSE) = Result(d, exact)

\* a completion was added at a prefix, and the lookup two spaces later got it
C13_Witness ==
    /\ ops = 2 /\ log[2].op = "add" /\ last.op = "get"
    /\ NothingToTrim(log[2].documentState.prefix)
    /\ log[2].completions = <<Completion(<<"b">>)>>
    /\ ~last.request.isExactPrefixOnly
    /\ last.request.documentState.prefix = log[2].documentState.prefix \o <<" ", " ">>
    /\ IsHit(last.result)
    /\ last.result.completions = log[2].completions
    /\ last.result = Result(log[2].documentState, FALSE)

(***************************************************************************)
(* C14                                                                     *)
(***************************************************************************)
\* how many completions the entries c[1 .. n] hold together
RECURSIVE TotalStored(_, _)
TotalStored(c, n) ==
    IF n = 0 THEN 0 ELSE TotalStored(c, n - 1) + Len(c[n].value.completions)

\* C14: add (with spare capacity) of a completion c to a prefix P with
\* trailing whitespace to trim stores c, unchanged, under the key of the
\* untrimmed P before it stores anything else, so that a get of P with
\* isExactPrefixOnly hits and holds c: one insertion more than the typed-
\* through positions.  When P has nothing to trim only the typed-through
\* positions are inserted, and the key of P gets c once (not at all when c is
\* empty).
C14_ExactPrefixEntry ==
    [][ (last'.op = "add" /\ Len(last'.completions) = 1 /\ SpareCapacity')
        => LET d == last'.documentState
               c == last'.completions[1]
               positions == maxCharsAppended(c.content) + 1
               was == StoredUnder(cache, cacheKey(d))
               is == StoredUnder(cache', cacheKey(d))
               inserted == TotalStored(cache', Len(cache'))
                              - TotalStored(cache, Len(cache))
           IN  IF NothingToTrim(d.prefix)
               THEN /\ inserted = positions
                    /\ is = was \o (IF c.content = <<>> THEN <<>> ELSE <<c>>)
               ELSE /\ inserted = positions + 1
                    /\ IsPrefixOf(was \o <<c>>, is)
                    /\ Contains(LruPeek(cache', getKey([documentState |-> d,
                                                        isExactPrefixOnly |-> TRUE])),
                                c.content) ]_vars

\* the empty completion was added after two blanks: the exact lookup of that
\* prefix holds it and no other lookup hits
C14_Witness ==
    /\ AddedOne /\ last.sizeBefore = 0
    /\ last.documentState.prefix = <<"a", NL, " ", " ">>
    /\ AddedContent = <<>>
    /\ Len(cache) = 1
    /\ Result(last.documentState, TRUE).completions = <<Completion(<<>>)>>
    /\ ~IsHit(Result(last.documentState, FALSE))

IsCachedCompletions(r) ==
    /\ DOMAIN r = {"logId", "completions"}
    /\ r.completions \in Seq({r.completions[n] : n \in 1 .. Len(r.completions)})

\* C16: get returns, for every document state and in every cache state,
\* either undefined (exactly when no entry is stored under the key it looks
\* up) or the entry stored there; a get that returns undefined leaves the
\* cache, contents and recency order, as it was.
C16_MissIsNormal ==
    [][ last'.op = "get"
        => /\ (last'.result = undefined)
                 <=> ~LruHas(cache, getKey(last'.request))
           /\ last'.result = undefined => cache' = cache
           /\ last'.result # undefined
                 => /\ IsCachedCompletions(last'.result)
                    /\ last'.result = LruPeek(cache, getKey(last'.request))
                    /\ LruKeys(cache') = LruKeys(cache) ]_vars

\* a get for another language missed in a cache that holds entries, and the
\* entries are in the order the add left them in
C16_Witness ==
    /\ ops = 2 /\ log[2].op = "add" /\ last.op = "get"
    /\ last.result = undefined
    /\ last.request.documentState.languageId = GO
    /\ Len(cache) >= 2
    /\ cache = add(<<>>, log[2].logId, log[2].documentState, log[2].completions)

(***************************************************************************)
(* C17                                                                     *)
(***************************************************************************)
\* the index in log of the latest clear, 0 when there was none
LastClear ==
    LET clears == {n \in 1 .. Len(log) : log[n].op = "clear"}
    IN  IF clears = {} THEN 0 ELSE CHOOSE n \in clears : \A m \in clears : m <= n

\* the cache c after the calls log[from + 1 .. to]
RECURSIVE ReplayOn(_, _, _)
ReplayOn(c, from, to) ==
    IF to <= from THEN c
    ELSE LET before == ReplayOn(c, from, to - 1)
         IN  IF Len(before) >= 0 THEN Apply(before, log[to]) ELSE before

\* the cache of a new instance after the calls log[from + 1 .. to]
FreshAfter(from, to) == ReplayOn(<<>>, from, to)

\* every document state the calls of the log speak of
DocsOfLog ==
    {log[n].documentState : n \in {m \in 1 .. Len(log) : log[m].op = "add"}}
        \cup {log[n].request.documentState :
                 n \in {m \in 1 .. Len(log) : log[m].op = "get"}}

\* C17: once clear was called the cache is what a newly made instance would
\* hold after the calls made since: it has no entry, and every get (exact or
\* not) misses, until the next add, and the adds after the clear store their
\* own completions and logIds and nothing from before it.
C17_ClearEmpties ==
    LastClear > 0
    => /\ cache = FreshAfter(LastClear, Len(log))
       /\ (\A n \in (LastClear + 1) .. Len(log) : log[n].op # "add")
             => /\ Len(cache) = 0
                /\ \A r \in Requests(DocsOfLog) : get(cache, r).result = undefined
       /\ \A n \in 1 .. Len(cache) :
             \E m \in (LastClear + 1) .. Len(log) :
                /\ log[m].op = "add"
                /\ cache[n].value.logId = log[m].logId

\* a full cache was cleared and a completion was then added at a prefix it
\* had held: the cache holds that completion alone, under the new logId
C17_Witness ==
    /\ ops = 2 /\ log[Len(log) - 1].op = "clear" /\ last.op = "add"
    /\ log[Len(log) - 1].sizeBefore = max
    /\ last.sizeBefore = 0
    /\ last.documentState = FillDoc(1)
    /\ last.completions = <<Completion(<<"a", "b">>)>>
    /\ Len(cache) = 2
    /\ Result(FillDoc(1), FALSE) = [logId |-> last.logId, completions |-> last.completions]
    /\ ~IsHit(Result(FillDoc(2), FALSE))

(***************************************************************************)
(* C18                                                                     *)
(***************************************************************************)
\* the completions of the list that are not empty, in the order of the list
NonEmpty(completions) == SelectSeq(completions, LAMBDA c : c.content # <<>>)

\* what the adds log[from .. to] insert under key, in the order of insertion
RECURSIVE InsertedBetween(_, _, _)
InsertedBetween(key, from, to) ==
    IF from > to THEN <<>>
    ELSE InsertedBetween(key, from, to - 1) \o InsertedUnder(log[to], key)

\* the first call on the instance was an add, and no clear followed
FirstWasAdd ==
    /\ Len(log) >= 2 /\ log[2].op = "add" /\ log[1].op = "new"
    /\ \A n \in 1 .. Len(log) : log[n].op # "clear"

FilledLog == Filled(Len(FillPrefixes)).log

FilledCache == Filled(Len(FillPrefixes)).cache

\* the cache of a second instance that was given the calls log[1 .. n] (where
\* these begin with the calls that fill the cache, what those leave is taken
\* as worked out already)
SecondInstance(n) ==
    IF n >= Len(FilledLog) /\ SubSeq(log, 1, Len(FilledLog)) = FilledLog
    THEN ReplayOn(FilledCache, Len(FilledLog), n)
    ELSE FreshAfter(0, n)

defaultLatencies == [user |-> 50, lowPerformance |-> 1000, max |-> 1400]

lowPerformanceLanguageIds ==
    { "css", "html", "scss", "vue", "dart", "json", "yaml", "postcss",
      "markdown", "plaintext", "xml", "twig", "jsonc", "handlebars" }

lowPerformanceCompletionIntents == {"comment", "import.source"}

\* Math.max
Max(a, b) == IF a > b THEN a ELSE b

\* (mutation) the baseline is added whatever the flag says
baseline_IgnoresFlag(params) ==
    LET isLowPerformanceLanguageId == params.languageId \in lowPerformanceLanguageIds
        isLowPerformanceCompletionIntent ==
            /\ "completionIntent" \in DOMAIN params
            /\ params.completionIntent \in lowPerformanceCompletionIntents
    IN  IF isLowPerformanceLanguageId \/ isLowPerformanceCompletionIntent
        THEN defaultLatencies.lowPerformance
        ELSE 0

\* the value of baseline when total is computed
baseline(params) ==
    LET isLowPerformanceLanguageId == params.languageId \in lowPerformanceLanguageIds
        isLowPerformanceCompletionIntent ==
            /\ "completionIntent" \in DOMAIN params
            /\ params.completionIntent \in lowPerformanceCompletionIntents
    IN  IF (isLowPerformanceLanguageId \/ isLowPerformanceCompletionIntent)
            /\ ~params.codyAutocompleteDisableLowPerfLangDelay
        THEN defaultLatencies.lowPerformance
        ELSE 0

\* (mutation) the smaller of the baseline and the maximum is returned
getArtificialDelay_Min(params) == Min(baseline(params), defaultLatencies.max)

getArtificialDelay(params) == Max(baseline(params), defaultLatencies.max)

(***************************************************************************)
(* SpecLatency: calls of getArtificialDelay.                               *)
(***************************************************************************)
MaxCalls == 1

LatencyLanguageIds == lowPerformanceLanguageIds \cup {"typescript", "go"}

CompletionIntents == lowPerformanceCompletionIntents \cup {"arguments"}

LatencyParams ==
    [languageId : LatencyLanguageIds,
     codyAutocompleteDisableLowPerfLangDelay : BOOLEAN]
        \cup [languageId : LatencyLanguageIds,
              codyAutocompleteDisableLowPerfLangDelay : BOOLEAN,
              completionIntent : CompletionIntents]

\* a call of getArtificialDelay, one of at most calls
GetArtificialDelayWithin(calls, params) ==
    /\ ops < calls
    /\ log' = Append(log, [op |-> "getArtificialDelay", params |-> params,
                            result |-> getArtificialDelay(params),
                            sizeBefore |-> Len(cache)])
    /\ ops' = ops + 1
    /\ UNCHANGED <<cache, others>>

GetArtificialDelay(params) == GetArtificialDelayWithin(MaxCalls, params)

DelayStep == \E params \in LatencyParams : GetArtificialDelay(params)

NextLatency == DelayStep

SpecLatency == Init /\ [][NextLatency]_vars

(***************************************************************************)
(* C20                                                                     *)
(***************************************************************************)
\* params with codyAutocompleteDisableLowPerfLangDelay flipped
Flipped(params) ==
    [params EXCEPT !.codyAutocompleteDisableLowPerfLangDelay = ~@]

OrderParams ==
    {params \in LatencyParams :
        /\ params.languageId \in {"yaml", "typescript"}
        /\ "completionIntent" \in DOMAIN params
              => params.completionIntent \in {"comment", "arguments"}}

DelayStepOrder == \E params \in OrderParams : GetArtificialDelayWithin(MaxOps, params)

NextLatencyOrder == DelayStepOrder

SpecLatencyOrder == Init /\ [][NextLatencyOrder]_vars

(***************************************************************************)
(* C21                                                                     *)
(***************************************************************************)
\* the calls of getArtificialDelay made so far
DelayCalls == {n \in 1 .. Len(log) : log[n].op = "getArtificialDelay"}

PENDING == [pending |-> TRUE]

null == [null |-> TRUE]

\* the value read from a key that an object does not have
unset == ""

ModelUsage == {"chat", "edit", "autocomplete"}

EMPTY_PREFERENCES ==
    [defaults |-> [chat |-> unset, edit |-> unset, autocomplete |-> unset],
     selected |-> [chat |-> unset, edit |-> unset, autocomplete |-> unset]]

\* (mutation) a changed default keeps the selection
setDefaultModel_KeepsSelected(user, usage, newDefaultModelId) ==
    [user EXCEPT !.defaults[usage] = newDefaultModelId]

\* (mutation) a changed default drops every selection
setDefaultModel_DropsAll(user, usage, newDefaultModelId) ==
    IF user.defaults[usage] = newDefaultModelId
    THEN user
    ELSE [user EXCEPT !.defaults[usage] = newDefaultModelId,
                      !.selected = [u \in DOMAIN @ |-> unset]]

setDefaultModel(user, usage, newDefaultModelId) ==
    IF user.defaults[usage] = newDefaultModelId
    THEN user
    ELSE [user EXCEPT !.defaults[usage] = newDefaultModelId,
                      !.selected[usage] = unset]

resolveModelPreferences(remote, user) ==
    IF remote # null
    THEN setDefaultModel(
             setDefaultModel(
                 setDefaultModel(user, "chat", remote.defaults.chat),
                 "edit", remote.defaults.chat),
             "autocomplete", remote.defaults.autocomplete)
    ELSE user

\* (mutation) every BYOK model is kept
normalizeModelList_KeepsAll(models) ==
    SelectSeq(models, LAMBDA m : "byok" \notin m.tags)
        \o SelectSeq(models, LAMBDA m : "byok" \in m.tags)

\* (mutation) the input order is kept and shadowing BYOK models are dropped
normalizeModelList_InPlace(models) ==
    SelectSeq(models,
              LAMBDA m : "byok" \notin m.tags
                         \/ \A n \in DOMAIN models :
                                "byok" \in models[n].tags \/ models[n].id # m.id)

normalizeModelList(models) ==
    LET modelsBYOK == SelectSeq(models, LAMBDA m : "byok" \in m.tags)
        modelsNonBYOK == SelectSeq(models, LAMBDA m : "byok" \notin m.tags)
        modelIDsNonBYOK == {modelsNonBYOK[i].id : i \in DOMAIN modelsNonBYOK}
    IN  modelsNonBYOK \o
        SelectSeq(modelsBYOK, LAMBDA m : m.id \notin modelIDsNonBYOK)

\* /^mi(x|s)tral/.test(modelName)
IsMistral(modelName) ==
    /\ Len(modelName) >= 7
    /\ SubSeq(modelName, 1, 7) \in {"mixtral", "mistral"}

\* Math.round(n * 0.85) for a non-negative integer n
RoundedShare(n) == (n * 85 + 50) \div 100

\* mutant of adjustContextWindow: truncates where the code rounds
adjustContextWindow_Floor(model) ==
    IF IsMistral(model.modelName)
    THEN [model EXCEPT !.contextWindow.maxInputTokens = (@ * 85) \div 100]
    ELSE model

adjustContextWindow(model) ==
    IF IsMistral(model.modelName)
    THEN [model EXCEPT !.contextWindow.maxInputTokens = RoundedShare(@)]
    ELSE model

maybeAdjustContextWindows(models) ==
    [i \in DOMAIN models |-> adjustContextWindow(models[i])]

\* a ServerModel's capabilities as the usages of the client-side Model
UsageOf(capabilities) ==
    (IF "chat" \in capabilities THEN {"chat", "edit"} ELSE {}) \cup
    (IF "autocomplete" \in capabilities THEN {"autocomplete"} ELSE {})

createModelFromServerModel(serverModel) ==
    [id |-> serverModel.modelName,
     usage |-> UsageOf(serverModel.capabilities),
     contextWindow |-> [input |-> serverModel.contextWindow.maxInputTokens,
                        output |-> serverModel.contextWindow.maxOutputTokens],
     tags |-> {serverModel.tier}]

\* parseModelRef(ref).modelId of a ref "provider::apiVersion::model", kept
\* as the triple of its parts
modelIdOf(modelRef) == modelRef[3]

ServerModelOf(provider, name, capabilities, maxInputTokens) ==
    [modelRef |-> <<provider, "unknown", name>>,
     modelName |-> name,
     capabilities |-> capabilities,
     tier |-> "enterprise",
     contextWindow |-> [maxInputTokens |-> maxInputTokens,
                        maxOutputTokens |-> 4000]]

serverOpus ==
    ServerModelOf("anthropic", "anthropic.claude-3-opus-20240229-v1_0",
                  {"chat"}, 9000)

serverClaude ==
    ServerModelOf("anthropic", "anthropic.claude-instant-v1",
                  {"autocomplete"}, 9000)

serverTitan ==
    ServerModelOf("anthropic", "amazon.titan-text-lite-v1",
                  {"autocomplete", "chat"}, 9000)

serverMixtral ==
    ServerModelOf("mistral", "mixtral-8x7b-instruct", {"chat"}, 8192)

SERVER_MODELS ==
    [models |-> <<serverOpus, serverClaude, serverTitan>>,
     defaultModels |-> [chat |-> serverOpus.modelRef,
                        fastChat |-> serverTitan.modelRef,
                        codeCompletion |-> serverClaude.modelRef]]

OTHER_SERVER_MODELS ==
    [models |-> <<serverMixtral, serverTitan>>,
     defaultModels |-> [chat |-> serverMixtral.modelRef,
                        fastChat |-> serverTitan.modelRef,
                        codeCompletion |-> serverTitan.modelRef]]

\* the RemoteModelsData made of the result of fetchServerSideModels
RemoteOfFetch(serverModelsConfig) ==
    IF serverModelsConfig = undefined
    THEN [preferences |-> [defaults |-> EMPTY_PREFERENCES.defaults],
          primaryModels |-> <<>>]
    ELSE [preferences |->
              [defaults |->
                  [autocomplete |->
                       modelIdOf(serverModelsConfig.defaultModels.codeCompletion),
                   chat |-> modelIdOf(serverModelsConfig.defaultModels.chat),
                   edit |-> modelIdOf(serverModelsConfig.defaultModels.chat)]],
          primaryModels |->
              LET adjusted == maybeAdjustContextWindows(serverModelsConfig.models)
              IN  [i \in DOMAIN adjusted |->
                      createModelFromServerModel(adjusted[i])]]

NoRemoteModels == [preferences |-> null, primaryModels |-> <<>>]

\* the single model of an enterprise instance that names its chat model
EnterpriseModel(chatModel) ==
    [preferences |-> null,
     primaryModels |-> <<[id |-> chatModel,
                          usage |-> {"chat", "edit"},
                          tags |-> {"enterprise"}]>>]

\* --- the pipeline of syncModels, subscribed once through shareReplay ---

Endpoint == "https://example.com"

OtherEndpoint == "https://other.example.com"

AuthStatuses ==
    [endpoint : {Endpoint}, authenticated : {TRUE}, chatModel : {"", "foo"}]
    \cup [endpoint : {OtherEndpoint}, authenticated : {TRUE}, chatModel : {""}]
    \cup [endpoint : {Endpoint}, authenticated : {FALSE}, chatModel : {""}]

ClientConfigs == {[modelsAPIEnabled |-> TRUE], [modelsAPIEnabled |-> FALSE]}

\* clientState.modelPreferences of the resolved configuration: nothing stored,
\* or the defaults of the other endpoint's server with a chat model selected
ModelPreferencesConfigs ==
    {[e \in {Endpoint, OtherEndpoint} |-> undefined],
     [e \in {Endpoint, OtherEndpoint} |->
         IF e = OtherEndpoint
         THEN [defaults |-> [chat |-> "mixtral-8x7b-instruct",
                             edit |-> "mixtral-8x7b-instruct",
                             autocomplete |-> "amazon.titan-text-lite-v1"],
               selected |-> [chat |-> "amazon.titan-text-lite-v1",
                             edit |-> unset, autocomplete |-> unset]]
         ELSE undefined]}

\* what fetchServerSideModels_ can resolve to at an endpoint
FetchResults(endpoint) ==
    {undefined, IF endpoint = Endpoint THEN SERVER_MODELS ELSE OTHER_SERVER_MODELS}

AllFetchResults == FetchResults(Endpoint) \cup FetchResults(OtherEndpoint)

\* the pipeline right after the subscription: resolvedConfig has emitted its
\* one value, authStatus and clientConfig have emitted nothing
Subscribed(replays, modelPreferences) ==
    [replays |-> replays,
     modelPreferences |-> modelPreferences,
     localModels |-> FALSE,
     authStatus |-> undefined,
     lastClientConfig |-> undefined,
     clientConfig |-> undefined,
     fetching |-> FALSE,
     remoteModelsData |-> undefined,
     userModelPreferences |-> undefined,
     latest |-> undefined,
     sinceAuth |-> <<>>,
     needsFetch |-> FALSE,
     fetched |-> FALSE,
     observed |-> undefined]

\* the map of the final combineLatest
ModelsDataOf(s) ==
    IF s.remoteModelsData = PENDING
    THEN PENDING
    ELSE [localModels |-> <<>>,
          primaryModels |-> normalizeModelList(s.remoteModelsData.primaryModels),
          preferences |-> resolveModelPreferences(s.remoteModelsData.preferences,
                                                  s.userModelPreferences)]

\* the final combineLatest after one of its sources emitted: it emits once all
\* three have a value, and distinctUntilChanged drops a repeated value
Emit(s) ==
    IF /\ s.localModels
       /\ s.remoteModelsData # undefined
       /\ s.userModelPreferences # undefined
    THEN LET value == ModelsDataOf(s)
         IN  IF value = s.latest
             THEN s
             ELSE [s EXCEPT !.latest = value,
                            !.sinceAuth = Append(@, value)]
    ELSE s

\* the inner switchMap of remoteModelsData on a value of clientConfig
OnClientConfig(s, c) ==
    LET t == [s EXCEPT !.clientConfig = c, !.fetching = FALSE]
    IN  IF c.modelsAPIEnabled
        THEN Emit([t EXCEPT !.fetching = TRUE, !.remoteModelsData = PENDING])
        ELSE IF t.authStatus.chatModel # ""
        THEN Emit([t EXCEPT !.remoteModelsData =
                                EnterpriseModel(t.authStatus.chatModel)])
        ELSE Emit([t EXCEPT !.remoteModelsData = NoRemoteModels])

\* the outer switchMap of remoteModelsData on a value of authStatus: the inner
\* subscription of the previous value is dropped (and its fetch with it), and
\* the new one gets a value of clientConfig only when clientConfig emits to
\* it, at once if clientConfig replays its last value to a new subscriber
OnAuthStatusRemote(s, a) ==
    LET t == [s EXCEPT !.authStatus = a, !.clientConfig = undefined,
                       !.fetching = FALSE]
    IN  IF ~a.authenticated
        THEN Emit([t EXCEPT !.remoteModelsData = NoRemoteModels])
        ELSE IF t.replays /\ t.lastClientConfig # undefined
        THEN OnClientConfig(t, t.lastClientConfig)
        ELSE t

\* userModelPreferences on a value of authStatus
OnAuthStatusPreferences(s, a) ==
    LET prevPreferences == s.modelPreferences[a.endpoint]
        preferences == IF prevPreferences = undefined
                       THEN EMPTY_PREFERENCES ELSE prevPreferences
    IN  IF preferences = s.userModelPreferences
        THEN s
        ELSE Emit([s EXCEPT !.userModelPreferences = preferences])

\* the inner observable of the fetch emits the data made of its result
Fetched(s, serverModelsConfig) ==
    Emit([s EXCEPT !.fetching = FALSE,
                   !.fetched = TRUE,
                   !.remoteModelsData = RemoteOfFetch(serverModelsConfig)])

MaxSteps == 7

SyncStep == ops < MaxSteps /\ ops' = ops + 1

SyncFrame ==
    UNCHANGED <<cache, log, storage, clientSettings_, publisher, heap,
                fetcher, mapper, remoteSearch>>

LocalModelsResolve ==
    /\ SyncStep
    /\ ~sync.localModels
    /\ sync' = Emit([sync EXCEPT !.localModels = TRUE])
    /\ SyncFrame

AuthStatusNext(a) ==
    /\ SyncStep
    /\ LET s == [sync EXCEPT
                    !.sinceAuth = <<>>,
                    !.observed = undefined,
                    !.fetched = FALSE,
                    !.needsFetch = /\ a.authenticated
                                   /\ sync.lastClientConfig # undefined
                                   /\ sync.lastClientConfig.modelsAPIEnabled]
       IN  sync' = OnAuthStatusPreferences(OnAuthStatusRemote(s, a), a)
    /\ SyncFrame

ClientConfigNext(c) ==
    /\ SyncStep
    /\ LET s == [sync EXCEPT !.lastClientConfig = c,
                             !.needsFetch = @ /\ c.modelsAPIEnabled]
       IN  sync' = IF s.authStatus # undefined /\ s.authStatus.authenticated
                   THEN OnClientConfig(s, c)
                   ELSE s
    /\ SyncFrame

FetchResolve(serverModelsConfig) ==
    /\ SyncStep
    /\ sync.fetching
    /\ serverModelsConfig \in FetchResults(sync.authStatus.endpoint)
    /\ sync' = Fetched(sync, serverModelsConfig)
    /\ SyncFrame

\* a late subscriber of the shareReplay wrapper gets the last value emitted
SubscribeLate ==
    /\ SyncStep
    /\ sync.latest # undefined
    /\ sync' = [sync EXCEPT !.observed = sync.latest]
    /\ SyncFrame

InitSync ==
    /\ cache = <<>>
    /\ log = <<[op |-> "new", sizeBefore |-> 0]>>
    /\ ops = 0
    /\ sync \in {Subscribed(replays, modelPreferences) :
                    replays \in BOOLEAN,
                    modelPreferences \in ModelPreferencesConfigs}
    /\ storage = undefined
    /\ clientSettings_ = undefined
    /\ publisher = [providers |-> <<>>, providerStatusMap |-> [entries |-> <<>>]]
    /\ heap = <<>>
    /\ RestInit

NextSync ==
    \/ LocalModelsResolve
    \/ \E a \in AuthStatuses : AuthStatusNext(a)
    \/ \E c \in ClientConfigs : ClientConfigNext(c)
    \/ \E r \in AllFetchResults : FetchResolve(r)
    \/ SubscribeLate

SpecSync == InitSync /\ [][NextSync]_vars

\* C22: once authStatus changes so that the new model list needs a server
\* fetch, and until that fetch completes, every value the observable emits is
\* 'pending' and a late subscriber of its shareReplay wrapper observes
\* 'pending', never ModelsData.  (Not an invariant of the code.)
C22_Original ==
    (sync # undefined /\ sync.needsFetch /\ ~sync.fetched) =>
        /\ \A i \in DOMAIN sync.sinceAuth : sync.sinceAuth[i] = PENDING
        /\ sync.observed \in {undefined, PENDING}

\* ---------------------------------------------------------------------
\* ModelsService (lib/shared/src/models/modelsService.ts) over the ModelsData
\* that syncModels has synced, with a storage of the model preferences.
\* ---------------------------------------------------------------------

EndsWith(s, t) ==
    /\ Len(s) >= Len(t)
    /\ SubSeq(s, Len(s) - Len(t) + 1, Len(s)) = t

Includes(s, t) ==
    \E i \in 1..(Len(s) - Len(t) + 1) : SubSeq(s, i, i + Len(t) - 1) = t

\* Array.prototype.find over the indices that pass the test
FirstOf(models, indices) ==
    IF indices = {}
    THEN undefined
    ELSE models[CHOOSE i \in indices : \A j \in indices : i <= j]

\* mutant of resolveModelID: exact match of the id only
resolveModelID_Exact(modelsData, modelID) ==
    LET models == modelsData.primaryModels \o modelsData.localModels
    IN  FirstOf(models, {i \in DOMAIN models : models[i].id = modelID})

\* resolveModel of a model given as a string
resolveModelID(modelsData, modelID) ==
    IF modelID = unset
    THEN undefined
    ELSE LET models == modelsData.primaryModels \o modelsData.localModels
             found == FirstOf(models,
                              {i \in DOMAIN models : EndsWith(modelID, models[i].id)})
         IN  IF found # undefined
             THEN found
             ELSE FirstOf(models,
                          {i \in DOMAIN models : Includes(modelID, models[i].id)})

\* resolveModel: a Model is returned as it is, a string is looked up
resolveModel(modelsData, model) ==
    IF model.isString
    THEN resolveModelID(modelsData, model.id)
    ELSE model.model

\* every auth status of the model is of a user of an enterprise instance
isEnterpriseUser(authStatus) ==
    authStatus.endpoint # "https://sourcegraph.com"

\* _isModelAvailable of a resolved model
isModelAvailable(authStatus, resolved) ==
    IF resolved = undefined
    THEN FALSE
    ELSE IF isEnterpriseUser(authStatus)
    THEN TRUE
    ELSE "free" \in resolved.tags

EMPTY_MODELS_DATA ==
    [localModels |-> <<>>, primaryModels |-> <<>>,
     preferences |-> EMPTY_PREFERENCES]

\* the last value of modelsChangesEmptyForPending
modelsChangesEmptyForPending(s) ==
    IF s.latest = PENDING THEN EMPTY_MODELS_DATA ELSE s.latest

\* mutant of getDefaultModel: the first model of the usage the user can use
getDefaultModel_First(s, type) ==
    LET modelsData == modelsChangesEmptyForPending(s)
        all == modelsData.primaryModels \o modelsData.localModels
    IN  FirstOf(all, {i \in DOMAIN all : type \in all[i].usage})

getDefaultModel(s, type) ==
    LET modelsData == modelsChangesEmptyForPending(s)
        all == modelsData.primaryModels \o modelsData.localModels
        models == SelectSeq(all, LAMBDA m : type \in m.usage)
        firstModelUserCanUse ==
            FirstOf(models, {i \in DOMAIN models :
                                isModelAvailable(s.authStatus, models[i])})
        preferred == IF modelsData.preferences.selected[type] # unset
                     THEN modelsData.preferences.selected[type]
                     ELSE modelsData.preferences.defaults[type]
        selected == resolveModelID(modelsData, preferred)
    IN  IF isModelAvailable(s.authStatus, selected)
        THEN selected
        ELSE firstModelUserCanUse

\* TestLocalStorageForModelPreferences.getModelPreferences
getModelPreferences(st) == st.data

\* mutant of withSelected: the other selections of the endpoint are dropped
withSelected_DropsOthers(currentPrefs, serverEndpoint, type, id) ==
    [currentPrefs EXCEPT ![serverEndpoint] =
        [EMPTY_PREFERENCES EXCEPT !.selected[type] = id]]

\* the preferences setSelectedModel stores: those read, with the id selected
\* for the usage at the endpoint
withSelected(currentPrefs, serverEndpoint, type, id) ==
    LET prefs == IF currentPrefs[serverEndpoint] = undefined
                 THEN [currentPrefs EXCEPT ![serverEndpoint] = EMPTY_PREFERENCES]
                 ELSE currentPrefs
    IN  [prefs EXCEPT ![serverEndpoint].selected[type] = id]

serverGpt4 == ServerModelOf("openai", "gpt-4", {"chat"}, 9000)

serverAzureGpt4 == ServerModelOf("azure-openai", "azure-gpt-4", {"chat"}, 9000)

\* a configuration in which the id of one model ends with the id of another
SHADOWING_SERVER_MODELS ==
    [models |-> <<serverGpt4, serverAzureGpt4, serverClaude>>,
     defaultModels |-> [chat |-> serverAzureGpt4.modelRef,
                        fastChat |-> serverGpt4.modelRef,
                        codeCompletion |-> serverClaude.modelRef]]

ServiceServerConfigs ==
    {undefined, SERVER_MODELS, OTHER_SERVER_MODELS, SHADOWING_SERVER_MODELS}

AUTH_STATUS_FIXTURE_AUTHED ==
    [endpoint |-> Endpoint, authenticated |-> TRUE, chatModel |-> ""]

ServiceAuthStatuses ==
    {AUTH_STATUS_FIXTURE_AUTHED,
     [AUTH_STATUS_FIXTURE_AUTHED EXCEPT !.endpoint = OtherEndpoint]}

\* the pipeline of syncModels once the fetch of the server's models has
\* resolved: authStatus and clientConfig emitted one value each (Observable.of)
Synced(a, serverModelsConfig, modelPreferences) ==
    LET s0 == Subscribed(TRUE, modelPreferences)
        s1 == Emit([s0 EXCEPT !.localModels = TRUE,
                              !.lastClientConfig = [modelsAPIEnabled |-> TRUE]])
        s2 == OnAuthStatusPreferences(OnAuthStatusRemote(s1, a), a)
    IN  Fetched(s2, serverModelsConfig)

\* the models a caller can name: those of the list, as Model or by id, and
\* the id of no model
ModelInputs(modelsData) ==
    LET models == modelsData.primaryModels \o modelsData.localModels
    IN  {[isString |-> FALSE, model |-> models[i]] : i \in DOMAIN models}
        \cup {[isString |-> TRUE, id |-> models[i].id] : i \in DOMAIN models}
        \cup {[isString |-> TRUE, id |-> "unknown"]}

AllModelInputs ==
    UNION {ModelInputs([primaryModels |-> RemoteOfFetch(c).primaryModels,
                        localModels |-> <<>>]) : c \in ServiceServerConfigs}

ServiceFrame ==
    UNCHANGED <<cache, sync, clientSettings_, publisher, heap,
                fetcher, mapper, remoteSearch>>

GetDefaultModel(type) ==
    /\ ops < MaxOps
    /\ ops' = ops + 1
    /\ log' = Append(log, [op |-> "getDefaultModel", type |-> type,
                           result |-> getDefaultModel(sync, type)])
    /\ UNCHANGED storage
    /\ ServiceFrame

SetSelectedModel(type, model) ==
    /\ ops < MaxOps
    /\ ops' = ops + 1
    /\ model \in ModelInputs(sync.latest)
    /\ LET modelsData == sync.latest
           resolved == resolveModel(modelsData, model)
           serverEndpoint == sync.authStatus.endpoint
           outcome == IF resolved = undefined
                      THEN "returned"
                      ELSE IF type \notin resolved.usage \/ storage = undefined
                      THEN "threw"
                      ELSE "stored"
       IN  /\ log' = Append(log, [op |-> "setSelectedModel", type |-> type,
                                  model |-> model, resolved |-> resolved,
                                  before |-> storage, outcome |-> outcome])
           /\ storage' = IF outcome = "stored"
                         THEN [data |-> withSelected(getModelPreferences(storage),
                                                     serverEndpoint, type,
                                                     resolved.id)]
                         ELSE storage
    /\ ServiceFrame

InitService ==
    /\ cache = <<>>
    /\ ops = 0
    /\ \E a \in ServiceAuthStatuses :
          \E c \in ServiceServerConfigs :
             \E modelPreferences \in ModelPreferencesConfigs :
                /\ sync = Synced(a, c, modelPreferences)
                /\ log = <<[op |-> "synced", serverModelsConfig |-> c]>>
                /\ storage \in {undefined, [data |-> modelPreferences]}
    /\ clientSettings_ = undefined
    /\ publisher = [providers |-> <<>>, providerStatusMap |-> [entries |-> <<>>]]
    /\ heap = <<>>
    /\ RestInit

NextService ==
    \/ \E type \in ModelUsage : GetDefaultModel(type)
    \/ \E type \in ModelUsage :
          \E model \in AllModelInputs : SetSelectedModel(type, model)

SpecService == InitService /\ [][NextService]_vars

\* the id of the model the server names as the default of the usage
ServerDefault(serverModelsConfig, type) ==
    IF type = "autocomplete"
    THEN modelIdOf(serverModelsConfig.defaultModels.codeCompletion)
    ELSE modelIdOf(serverModelsConfig.defaultModels.chat)

\* the user has selected no model at the endpoint
NoUserSelected ==
    LET stored == sync.modelPreferences[sync.authStatus.endpoint]
    IN  stored = undefined \/ stored.selected = EMPTY_PREFERENCES.selected

DefaultCalls ==
    {n \in DOMAIN log : log[n].op = "getDefaultModel"}

\* C23: with no user-selected model, after the models of a server are synced
\* for an enterprise user, getDefaultModel of chat and of edit is the model of
\* the server's chat default and getDefaultModel of autocomplete is the model
\* of the server's codeCompletion default.  (Not an invariant of the code.)
C23_Original ==
    (log[1].op = "synced" /\ log[1].serverModelsConfig # undefined
        /\ NoUserSelected) =>
        \A n \in DefaultCalls :
            /\ log[n].result # undefined
            /\ log[n].result.id = ServerDefault(log[1].serverModelsConfig,
                                                log[n].type)

SelectCalls ==
    {n \in DOMAIN log : log[n].op = "setSelectedModel"}

\* the storage after the call of log[n]
StorageAfter(n) ==
    IF \E m \in SelectCalls : m > n
    THEN log[CHOOSE m \in SelectCalls : m > n /\ \A k \in SelectCalls : k > n => m <= k].before
    ELSE storage

\* C24: a setSelectedModel(type, model) whose model is compatible with the
\* usage type, made with a storage set, stores the id of the model as
\* selected[type] of the current endpoint, and leaves the stored preferences
\* of every other endpoint, and the defaults and the selections for the other
\* usage types of the current endpoint, as they were; the model is the one
\* passed, or the one of the list that the string passed resolves to.
C24_StoresSelected ==
    \A n \in SelectCalls :
        LET call == log[n]
            endpoint == sync.authStatus.endpoint
            before == call.before.data
            after == StorageAfter(n).data
            was == IF before[endpoint] = undefined
                   THEN EMPTY_PREFERENCES ELSE before[endpoint]
        IN  (call.resolved # undefined /\ call.type \in call.resolved.usage
                /\ call.before # undefined) =>
                /\ call.outcome = "stored"
                /\ ~call.model.isString => call.resolved = call.model.model
                /\ after[endpoint].selected[call.type] = call.resolved.id
                /\ \A e \in DOMAIN before : e # endpoint => after[e] = before[e]
                /\ after[endpoint].defaults = was.defaults
                /\ \A usage \in ModelUsage \ {call.type} :
                      after[endpoint].selected[usage] = was.selected[usage]

\* two models were selected one after the other, for chat and then for edit,
\* at an endpoint without stored preferences while the other endpoint had
\* some: the second call kept the selection of the first and both kept the
\* preferences of the other endpoint
C24_Witness ==
    /\ Len(log) = 3
    /\ log[2].op = "setSelectedModel" /\ log[3].op = "setSelectedModel"
    /\ log[2].outcome = "stored" /\ log[3].outcome = "stored"
    /\ log[2].type = "chat" /\ log[3].type = "edit"
    /\ sync.authStatus.endpoint = Endpoint
    /\ log[2].before.data[Endpoint] = undefined
    /\ log[2].before.data[OtherEndpoint] # undefined
    /\ storage.data[OtherEndpoint] = log[2].before.data[OtherEndpoint]
    /\ storage.data[Endpoint].selected.chat = "amazon.titan-text-lite-v1"
    /\ storage.data[Endpoint].selected.edit = "anthropic.claude-3-opus-20240229-v1_0"

\* ---------------------------------------------------------------------
\* maybeAdjustContextWindows as a function of its input
\* ---------------------------------------------------------------------

MaxModels == 2

AdjustModelNames ==
    {"mistral-7b", "mixtral-8x7b-instruct", "deepseek-coder-v2-lite-base",
     "Mistral-large", "open-mistral", "mitral"}

AdjustTokenCounts == {0, 1, 10, 8192, 9000}

AdjustModels ==
    {ServerModelOf("fireworks", name, {"chat"}, n) :
        name \in AdjustModelNames, n \in AdjustTokenCounts}

AdjustInputs ==
    UNION {[1..len -> AdjustModels] : len \in 0..MaxModels}

\* mutant of inputAfterAdjust: the models passed are adjusted in place
inputAfterAdjust_InPlace(models) == maybeAdjustContextWindows(models)

\* the array passed, after the call: map and the spreads build new objects
\* and assign to none of the caller's
inputAfterAdjust(models) == models

MaybeAdjustContextWindows ==
    /\ Len(log) = 1
    /\ log' = Append(log, [op |-> "maybeAdjustContextWindows",
                           result |-> maybeAdjustContextWindows(log[1].models),
                           models |-> inputAfterAdjust(log[1].models)])
    /\ UNCHANGED <<cache, ops, others>>

InitAdjust ==
    /\ cache = <<>>
    /\ ops = 0
    /\ \E models \in AdjustInputs : log = <<[op |-> "input", models |-> models]>>
    /\ OthersInit

NextAdjust == MaybeAdjustContextWindows

SpecAdjust == InitAdjust /\ [][NextAdjust]_vars

Adjusted == Len(log) = 2 /\ log[2].op = "maybeAdjustContextWindows"

\* C25: maybeAdjustContextWindows returns as many models as it is given, in
\* the same order; the model at each position is the one passed, with
\* maxInputTokens replaced by the integer nearest to 0.85 * maxInputTokens
\* (the upper one of two) when modelName starts with 'mistral' or 'mixtral',
\* and with every field as passed otherwise (8192 gives 6963); the array
\* passed and its models are as they were.
C25_AdjustsMistral ==
    Adjusted =>
        LET input == log[1].models
            result == log[2].result
        IN  /\ Len(result) = Len(input)
            /\ log[2].models = input
            /\ \A i \in DOMAIN input :
                  LET n == input[i].contextWindow.maxInputTokens
                      r == result[i].contextWindow.maxInputTokens
                      name == input[i].modelName
                  IN  /\ result[i] = [input[i] EXCEPT
                                         !.contextWindow.maxInputTokens = r]
                      /\ IF name \in {"mistral-7b", "mixtral-8x7b-instruct"}
                         THEN /\ 100 * r - 85 * n > -50
                              /\ 100 * r - 85 * n <= 50
                              /\ n = 8192 => r = 6963
                         ELSE r = n

\* a mixtral model with 8192 input tokens came back with 6963, before a
\* model of another name that came back as it was
C25_Witness ==
    /\ Adjusted
    /\ Len(log[1].models) = 2
    /\ log[1].models[1].modelName = "mixtral-8x7b-instruct"
    /\ log[1].models[1].contextWindow.maxInputTokens = 8192
    /\ log[2].result[1].contextWindow.maxInputTokens = 6963
    /\ log[1].models[2].modelName = "deepseek-coder-v2-lite-base"
    /\ log[2].result[2] = log[1].models[2]

\* ---------------------------------------------------------------------
\* Client settings (vscode/src/client-settings.ts): a module variable that
\* is set once.  Settings are objects of the heap; clientSettings_ is
\* undefined or a reference to one.
\* ---------------------------------------------------------------------

\* obj[key] of an object given by its value
Read(value, key) == IF key \in DOMAIN value THEN value[key] ELSE unset

\* JSON.parse(JSON.stringify(value)) of an object of simple values: a new
\* object without the keys whose value is undefined
JSONClone(value) ==
    [key \in {k \in DOMAIN value : value[k] # unset} |-> value[key]]

\* mutant of initClientSettings: a later call replaces the settings
initClientSettings_Overwrites(h, current, settings) ==
    [heap |-> Append(h, [value |-> JSONClone(h[settings].value),
                         frozen |-> TRUE]),
     clientSettings_ |-> [ref |-> Len(h) + 1],
     threw |-> FALSE]

\* mutant of initClientSettings: the object passed is kept as it is
initClientSettings_KeepsReference(h, current, settings) ==
    IF current # undefined
    THEN [heap |-> h, clientSettings_ |-> current, threw |-> TRUE]
    ELSE [heap |-> h, clientSettings_ |-> [ref |-> settings], threw |-> FALSE]

\* initClientSettings(settings), settings a reference into the heap h
initClientSettings(h, current, settings) ==
    IF current # undefined
    THEN [heap |-> h, clientSettings_ |-> current, threw |-> TRUE]
    ELSE [heap |-> Append(h, [value |-> JSONClone(h[settings].value),
                              frozen |-> TRUE]),
          clientSettings_ |-> [ref |-> Len(h) + 1],
          threw |-> FALSE]

\* clientSettings()
clientSettings(current) ==
    IF current = undefined
    THEN [threw |-> TRUE, result |-> undefined]
    ELSE [threw |-> FALSE, result |-> current]

\* obj[key] = value on an object of the heap: a frozen object stays as it is
Assign(h, ref, key, value) ==
    IF h[ref].frozen
    THEN h
    ELSE [h EXCEPT ![ref].value =
             [k \in DOMAIN @ \cup {key} |-> IF k = key THEN value ELSE @[k]]]

MaxSettingsCalls == 4

SettingsInputs ==
    {[editControls |-> "client", editDecorations |-> "none"],
     [editControls |-> "lenses", editDecorations |-> "characterDiffHighlights"],
     [editControls |-> "lenses", editDecorations |-> "none", extra |-> unset]}

SettingsFrame ==
    UNCHANGED <<cache, sync, storage, publisher, fetcher, mapper, remoteSearch>>

SettingsStep == ops < MaxSettingsCalls /\ ops' = ops + 1

\* a caller makes a settings object and passes it to initClientSettings
InitClientSettings(settings) ==
    /\ SettingsStep
    /\ LET passed == Len(heap) + 1
           r == initClientSettings(
                    Append(heap, [value |-> settings, frozen |-> FALSE]),
                    clientSettings_, passed)
       IN  /\ heap' = r.heap
           /\ clientSettings_' = r.clientSettings_
           /\ log' = Append(log, [op |-> "initClientSettings",
                                  settings |-> settings,
                                  passed |-> passed,
                                  threw |-> r.threw])
    /\ SettingsFrame

ClientSettings ==
    /\ SettingsStep
    /\ LET r == clientSettings(clientSettings_)
       IN  log' = Append(log, [op |-> "clientSettings",
                               threw |-> r.threw,
                               result |-> r.result,
                               value |-> IF r.threw THEN undefined
                                         ELSE heap[r.result.ref].value])
    /\ UNCHANGED <<clientSettings_, heap>>
    /\ SettingsFrame

\* a holder of an object (the caller that passed it, or a reader of the
\* object clientSettings() returned) assigns to its editControls
AssignEditControls(ref, value) ==
    /\ SettingsStep
    /\ ref \in DOMAIN heap
    /\ heap' = Assign(heap, ref, "editControls", value)
    /\ log' = Append(log, [op |-> "assign", object |-> ref, value |-> value])
    /\ UNCHANGED clientSettings_
    /\ SettingsFrame

InitSettings ==
    /\ cache = <<>>
    /\ log = <<[op |-> "new", sizeBefore |-> 0]>>
    /\ ops = 0
    /\ OthersInit

NextSettings ==
    \/ \E settings \in SettingsInputs : InitClientSettings(settings)
    \/ ClientSettings
    \/ \E ref \in 1..(2 * MaxSettingsCalls) :
          \E value \in {"client", "lenses"} : AssignEditControls(ref, value)

SpecSettings == InitSettings /\ [][NextSettings]_vars

InitCalls == {n \in DOMAIN log : log[n].op = "initClientSettings"}

FirstInit == CHOOSE n \in InitCalls : \A m \in InitCalls : n <= m

SettingKeys == {"editControls", "editDecorations", "extra"}

\* the values of the settings object are those passed to the first call
AsFirstPassed(value) ==
    \A key \in SettingKeys : Read(value, key) = Read(log[FirstInit].settings, key)

\* C26: clientSettings() throws as long as initClientSettings has not been
\* called; the first initClientSettings does not throw, every later one
\* throws; from the first call on, the stored settings, and what every
\* clientSettings() returns, have the values passed to the first call,
\* whatever is later passed to initClientSettings or assigned to the object
\* that was passed or to the object that was returned.
C26_WriteOnce ==
    /\ InitCalls = {} => clientSettings_ = undefined
    /\ InitCalls # {} =>
          /\ clientSettings_ # undefined
          /\ AsFirstPassed(heap[clientSettings_.ref].value)
    /\ \A n \in InitCalls : log[n].threw <=> n # FirstInit
    /\ \A n \in DOMAIN log :
          log[n].op = "clientSettings" =>
              IF \E m \in InitCalls : m < n
              THEN ~log[n].threw /\ AsFirstPassed(log[n].value)
              ELSE log[n].threw

\* settings were set, the caller then changed editControls of the object it
\* had passed, a second initClientSettings with other settings threw, and
\* clientSettings() returned the values of the first call
C26_Witness ==
    /\ Len(log) = 5
    /\ log[2].op = "initClientSettings" /\ ~log[2].threw
    /\ log[2].settings.editControls = "client"
    /\ log[3].op = "assign" /\ log[3].object = log[2].passed
    /\ heap[log[2].passed].value.editControls = "lenses"
    /\ log[4].op = "initClientSettings" /\ log[4].threw
    /\ log[4].settings.editControls = "lenses"
    /\ log[5].op = "clientSettings" /\ ~log[5].threw
    /\ log[5].value.editControls = "client"
    /\ log[5].value.editDecorations = "none"

\* ---------------------------------------------------------------------
\* ContextStatusPublisher (vscode/src/local-context/enhanced-context-status.ts).
\* Providers are objects of the heap with a status and the listeners of
\* their onDidChangeStatus event; providerStatusMap is kept in insertion
\* order, or is undefined once the publisher is disposed.
\* ---------------------------------------------------------------------

ContextGroupOf(state) ==
    [name |-> "github.com/foo/bar.git",
     providers |-> <<[kind |-> "embeddings", type |-> "local", state |-> state]>>]

ProviderStatuses ==
    {<<>>, <<ContextGroupOf("unconsented")>>, <<ContextGroupOf("indexing")>>}

MapHas(map, provider) ==
    \E i \in DOMAIN map.entries : map.entries[i].provider = provider

MapSet(map, provider, status) ==
    IF MapHas(map, provider)
    THEN [entries |-> [i \in DOMAIN map.entries |->
                          IF map.entries[i].provider = provider
                          THEN [provider |-> provider, status |-> status]
                          ELSE map.entries[i]]]
    ELSE [entries |-> Append(map.entries,
                             [provider |-> provider, status |-> status])]

MapDelete(map, provider) ==
    [entries |-> SelectSeq(map.entries, LAMBDA e : e.provider # provider)]

\* ContextStatusPublisher.onDidChangeStatus(provider)
onDidChangeStatus(pub, h, provider) ==
    IF pub.providerStatusMap = undefined
    THEN pub
    ELSE IF ~MapHas(pub.providerStatusMap, provider)
    THEN pub
    ELSE [pub EXCEPT !.providerStatusMap = MapSet(@, provider, h[provider].status)]

\* ContextStatusPublisher.status
publisherStatus(pub) ==
    IF pub.providerStatusMap = undefined
    THEN [threw |-> TRUE, result |-> <<>>]
    ELSE [threw |-> FALSE, result |-> <<>>]

PublisherFrame ==
    UNCHANGED <<cache, sync, storage, clientSettings_, fetcher, mapper, remoteSearch>>

PublisherStep == ops < MaxOps /\ ops' = ops + 1

\* addProvider(provider); no callback is called, the class keeps none
AddProvider(provider) ==
    /\ PublisherStep
    /\ provider \in DOMAIN heap
    /\ IF publisher.providerStatusMap = undefined
       THEN /\ log' = Append(log, [op |-> "addProvider", provider |-> provider,
                                   threw |-> TRUE, events |-> <<>>])
            /\ UNCHANGED <<publisher, heap>>
       ELSE /\ publisher' =
                [providers |-> Append(publisher.providers, provider),
                 providerStatusMap |-> MapSet(publisher.providerStatusMap,
                                              provider, heap[provider].status)]
            /\ heap' = [heap EXCEPT ![provider].listeners = @ + 1]
            /\ log' = Append(log, [op |-> "addProvider", provider |-> provider,
                                   threw |-> FALSE, events |-> <<>>])
    /\ PublisherFrame

\* removeProvider(provider): the first occurrence leaves providers, the entry
\* leaves the map; the listener on the provider stays
RemoveProvider(provider) ==
    /\ PublisherStep
    /\ provider \in DOMAIN heap
    /\ LET found == {i \in DOMAIN publisher.providers :
                        publisher.providers[i] = provider}
           i == IF found = {} THEN 0
                ELSE CHOOSE j \in found : \A k \in found : j <= k
       IN  publisher' =
               [providers |-> IF i = 0 THEN publisher.providers
                              ELSE SubSeq(publisher.providers, 1, i - 1) \o
                                   SubSeq(publisher.providers, i + 1,
                                          Len(publisher.providers)),
                providerStatusMap |->
                    IF publisher.providerStatusMap = undefined
                    THEN undefined
                    ELSE MapDelete(publisher.providerStatusMap, provider)]
    /\ log' = Append(log, [op |-> "removeProvider", provider |-> provider])
    /\ UNCHANGED heap
    /\ PublisherFrame

\* a provider gets a new status and fires its event: each listener that
\* addProvider left on it calls onDidChangeStatus(provider)
ProviderChanges(provider, status) ==
    /\ PublisherStep
    /\ provider \in DOMAIN heap
    /\ heap' = [heap EXCEPT ![provider].status = status]
    /\ publisher' = IF heap[provider].listeners > 0
                    THEN onDidChangeStatus(publisher, heap', provider)
                    ELSE publisher
    /\ log' = Append(log, [op |-> "providerChanges", provider |-> provider])
    /\ PublisherFrame

\* onDidChangeStatus called with a callback, as a subscription would be: the
\* callback is no provider of the map and the call returns
Subscribe ==
    /\ PublisherStep
    /\ log' = Append(log, [op |-> "onDidChangeStatus(callback)"])
    /\ UNCHANGED <<publisher, heap>>
    /\ PublisherFrame

Dispose ==
    /\ PublisherStep
    /\ publisher' = [publisher EXCEPT !.providerStatusMap = undefined]
    /\ log' = Append(log, [op |-> "dispose"])
    /\ UNCHANGED heap
    /\ PublisherFrame

GetStatus ==
    /\ PublisherStep
    /\ LET r == publisherStatus(publisher)
       IN  log' = Append(log, [op |-> "status", threw |-> r.threw,
                               result |-> r.result])
    /\ UNCHANGED <<publisher, heap>>
    /\ PublisherFrame

\* a new publisher and two providers, each with the status of TestProvider
InitPublisher ==
    /\ cache = <<>>
    /\ log = <<[op |-> "new", sizeBefore |-> 0]>>
    /\ ops = 0
    /\ sync = undefined
    /\ storage = undefined
    /\ clientSettings_ = undefined
    /\ publisher = [providers |-> <<>>, providerStatusMap |-> [entries |-> <<>>]]
    /\ heap = <<[status |-> <<ContextGroupOf("unconsented")>>, listeners |-> 0],
                [status |-> <<ContextGroupOf("unconsented")>>, listeners |-> 0]>>
    /\ RestInit

NextPublisher ==
    \/ \E provider \in 1..2 : AddProvider(provider)
    \/ \E provider \in 1..2 : RemoveProvider(provider)
    \/ \E provider \in 1..2 :
          \E status \in ProviderStatuses : ProviderChanges(provider, status)
    \/ Subscribe
    \/ Dispose
    \/ GetStatus

SpecPublisher == InitPublisher /\ [][NextPublisher]_vars

\* C27: an addProvider made after a callback was given to onDidChangeStatus
\* calls the callback, and the status of the publisher is then the groups of
\* the providers added (for one provider with one group, that group).
\* (Not an invariant of the code.)
C27_Original ==
    (/\ last.op = "addProvider"
     /\ ~last.threw
     /\ \E n \in DOMAIN log : log[n].op = "onDidChangeStatus(callback)") =>
        /\ last.events # <<>>
        /\ Len(publisher.providers) = 1 =>
              publisherStatus(publisher).result = heap[last.provider].status

(***************************************************************************)
(* C28                                                                     *)
(***************************************************************************)
Untrimmed(d) == trimEndOnLastLineIfWhitespaceOnly(d.prefix) # d.prefix

\* the keys under which the loop of add stores the one completion of cs
TypedThroughKeys(d, cs) ==
    LET insertions == insertionsOf(d, cs)
        first == IF Untrimmed(d) THEN 2 ELSE 1
    IN  {insertions[j].key : j \in first .. Len(insertions)}

LooseGets ==
    {n \in DOMAIN log : log[n].op = "get" /\ ~log[n].request.isExactPrefixOnly}

UntrimmedAdds ==
    {m \in DOMAIN log : log[m].op = "add" /\ Untrimmed(log[m].documentState)}

\* C28: a get with isExactPrefixOnly false or omitted never reads the key
\* under which an add stored the completion for its untrimmed prefix, and
\* when it hits, an earlier add stored a typed-through remainder under the
\* key it read; the entry of the untrimmed prefix alone never makes it hit.
C28_ExactOnly ==
    \A n \in LooseGets :
        /\ \A m \in UntrimmedAdds :
              getKey(log[n].request) # cacheKey(log[m].documentState)
        /\ IsHit(log[n].result) =>
              \E m \in 1 .. (n - 1) :
                 /\ log[m].op = "add"
                 /\ Len(log[m].completions) = 1
                 /\ getKey(log[n].request)
                       \in TypedThroughKeys(log[m].documentState,
                                            log[m].completions)

\* the empty completion was added for a prefix that ends in a space, which
\* stores it under the untrimmed prefix only, and the get of that same prefix
\* without isExactPrefixOnly missed
C28_Witness ==
    /\ Len(log) = 3
    /\ log[2].op = "add" /\ Untrimmed(log[2].documentState)
    /\ log[2].completions = <<Completion(<<>>)>>
    /\ LruHas(cache, cacheKey(log[2].documentState))
    /\ log[3].op = "get" /\ ~log[3].request.isExactPrefixOnly
    /\ log[3].request.documentState = log[2].documentState
    /\ ~IsHit(log[3].result)

(***************************************************************************)
(* C30                                                                     *)
(* One call of add on a cache that may be full.  The call is a run of     *)
(* cache.set calls, each of which drops the least recently used entry     *)
(* when the key is new and the cache holds max keys.                      *)
(*                                                                         *)
(* SpecEvict: the instance of SpecLRU, filled to its capacity, with adds   *)
(* of one completion and of two.  The add of "ab" and "z\nb" to the prefix *)
(* the fill made first inserts under a new key, which drops the entry of   *)
(* a key it inserts under next.                                            *)
(***************************************************************************)
EvictDocs == { FillDoc(1), FillDoc(2), Doc(<<"a", NL>>, <<>>, TS) }

EvictCompletionLists ==
    { <<Completion(<<"a", "b">>)>>,
      <<Completion(<<"a", "b">>), Completion(<<"z", NL, "b">>)>> }

AddStepEvict ==
    \E d \in EvictDocs, cs \in EvictCompletionLists : Add("id1", d, cs)

GetStepEvict ==
    \E d \in EvictDocs : Get([documentState |-> d, isExactPrefixOnly |-> FALSE])

NextEvict == AddStepEvict \/ GetStepEvict \/ Clear

SpecEvict == InitLRU /\ [][NextEvict]_vars

\* the keys a call of add inserts under
InsertedKeys(call) ==
    LET insertions == insertionsOf(call.documentState, call.completions)
    IN  {insertions[j].key : j \in 1 .. Len(insertions)}

\* the entry c held under key is gone from d, replaced or not; after is the
\* set of the keys of d, and inserted the set of the keys of the call
Evicted(c, d, after, call, inserted, key) ==
    \/ key \notin after
    \/ /\ key \in inserted
       /\ Len(LruPeek(d, key).completions)
            # Len(LruPeek(c, key).completions) + Len(InsertedUnder(call, key))

\* C30: when one call of add inserts under at most max distinct keys, then
\* right after it every one of those keys is present, the cache holds as
\* many keys as it can (nothing went that could have stayed), every entry
\* that went was there before the call, and the entries that went are the
\* least recently used ones: an entry the call did not insert under goes
\* before any entry that was used more recently than it.
C30_KeepsItsOwnKeys ==
    [][ LET inserted == InsertedKeys(last')
            before == LruKeys(cache)
            after == LruKeys(cache')
            gone == {j \in 1 .. Len(cache) :
                        Evicted(cache, cache', after, last', inserted, cache[j].key)}
            newest == CHOOSE j \in gone : \A k \in gone : k <= j
        IN  (last'.op = "add" /\ Len(log') = Len(log) + 1
                /\ Cardinality(inserted) <= max)
            => /\ inserted \subseteq after
               /\ after \subseteq before \cup inserted
               /\ Len(cache') = IF Cardinality(before \cup inserted) < max
                                THEN Cardinality(before \cup inserted)
                                ELSE max
               /\ gone # {} =>
                    \A i \in 1 .. newest :
                        cache[i].key \notin inserted => cache[i].key \notin after ]_vars

\* a call of add on the full cache that made new keys: they are all there,
\* entries the fill had made went for them, and one of the keys inserted
\* under had its entry dropped by the call before the call came to it
C30_Witness ==
    /\ Len(log) = Len(FilledLog) + 1
    /\ last.op = "add"
    /\ last.sizeBefore = max
    /\ InsertedKeys(last) \ LruKeys(FilledCache) # {}
    /\ InsertedKeys(last) \subseteq LruKeys(cache)
    /\ LruKeys(FilledCache) \ LruKeys(cache) # {}
    /\ Len(cache) = max
    /\ \E key \in InsertedKeys(last) \cap LruKeys(FilledCache) :
            Evicted(FilledCache, cache, LruKeys(cache), last, InsertedKeys(last), key)

(***************************************************************************)
(* C29                                                                     *)
(* SpecAlias: the cache with its objects told apart.  heap holds the       *)
(* objects made so far: a Completion is the record itself, a Completion[]  *)
(* is [items], a sequence of references to Completions, and a              *)
(* CachedCompletions is [logId, completions], with a reference to its      *)
(* array.  The values of cache are references to CachedCompletions.         *)
(***************************************************************************)
Ref(n) == [ref |-> n]

ArrayOf(items) == [items |-> items]

EntryOf(logId, completions) == [logId |-> logId, completions |-> completions]

\* the elements of the array behind a reference
ItemsOf(h, array) == h[array.ref].items

\* what a holder of a reference to a CachedCompletions reads through it
DerefEntry(h, entry) ==
    LET items == ItemsOf(h, h[entry.ref].completions)
    IN  [logId |-> h[entry.ref].logId,
         completions |-> [i \in 1 .. Len(items) |-> h[items[i].ref]]]

\* what a holder of a reference to a Completion[] reads through it
DerefArray(h, array) ==
    [i \in 1 .. Len(ItemsOf(h, array)) |-> h[ItemsOf(h, array)[i].ref]]

\* the cache as CompletionsCache.__stateForTestsOnly shows it
DerefCache(h, c) ==
    [n \in 1 .. Len(c) |-> [key |-> c[n].key, value |-> DerefEntry(h, c[n].value)]]

\* (mutation) a key that is there keeps its entry object, which gets the new
\* logId and the longer list
insertCompletionRef_InPlace(st, key, logId, completion) ==
    IF LruHas(st.cache, key)
    THEN LET entry == LruPeek(st.cache, key)
             existingCompletions == ItemsOf(st.heap, st.heap[entry.ref].completions)
             withArray == Append(st.heap, ArrayOf(Append(existingCompletions, completion)))
         IN  [heap |-> [withArray EXCEPT ![entry.ref] = EntryOf(logId, Ref(Len(withArray)))],
              cache |-> LruSet(LruTouch(st.cache, key), key, entry)]
    ELSE LET withArray == Append(st.heap, ArrayOf(<<completion>>))
             withEntry == Append(withArray, EntryOf(logId, Ref(Len(withArray))))
         IN  [heap |-> withEntry,
              cache |-> LruSet(st.cache, key, Ref(Len(withEntry)))]

\* insertCompletion on st = [heap, cache], completion a reference
insertCompletionRef(st, key, logId, completion) ==
    LET has == LruHas(st.cache, key)
        afterHas == IF has THEN LruTouch(st.cache, key) ELSE st.cache
        existingCompletions ==
            IF has
            THEN ItemsOf(st.heap, st.heap[LruPeek(st.cache, key).ref].completions)
            ELSE <<>>
        withArray == Append(st.heap, ArrayOf(Append(existingCompletions, completion)))
        withEntry == Append(withArray, EntryOf(logId, Ref(Len(withArray))))
    IN  [heap |-> withEntry,
         cache |-> LruSet(afterHas, key, Ref(Len(withEntry)))]

\* the body of the loop of add for one completion, from its j-th call of
\* insertCompletion on: the call for the untrimmed prefix passes the
\* caller's Completion, the others a new object made of a slice of it
RECURSIVE insertEach(_, _, _, _, _)
insertEach(st, logId, documentState, completion, j) ==
    LET insertions == insertionsFor(documentState, st.heap[completion.ref])
        withPartial == [st EXCEPT !.heap = Append(@, insertions[j].completion)]
    IN  IF j > Len(insertions) THEN st
        ELSE IF j = 1 /\ Untrimmed(documentState)
             THEN insertEach(insertCompletionRef(st, insertions[j].key, logId, completion),
                             logId, documentState, completion, j + 1)
             ELSE insertEach(insertCompletionRef(withPartial, insertions[j].key, logId,
                                                 Ref(Len(withPartial.heap))),
                             logId, documentState, completion, j + 1)

\* add from the i-th element of the array on, the array read as it is then
RECURSIVE addRef(_, _, _, _, _)
addRef(st, logId, documentState, completions, i) ==
    IF i > Len(ItemsOf(st.heap, completions)) THEN st
    ELSE addRef(insertEach(st, logId, documentState,
                           ItemsOf(st.heap, completions)[i], 1),
                logId, documentState, completions, i + 1)

\* the heap after the caller made the Completions and then their array
RECURSIVE WithCompletions(_, _)
WithCompletions(h, completions) ==
    IF completions = <<>> THEN h
    ELSE WithCompletions(Append(h, Head(completions)), Tail(completions))

WithArray(h, completions) ==
    Append(WithCompletions(h, completions),
           ArrayOf([i \in 1 .. Len(completions) |-> Ref(Len(h) + i)]))

MaxAliasOps == 3

AliasStep == ops < MaxAliasOps /\ ops' = ops + 1

AliasFrame ==
    UNCHANGED <<sync, storage, clientSettings_, publisher, fetcher, mapper, remoteSearch>>

\* add called with an array the caller has just made
AddNew(logId, documentState, completions) ==
    /\ AliasStep
    /\ LET made == WithArray(heap, completions)
           st == addRef([heap |-> made, cache |-> cache], logId, documentState,
                        Ref(Len(made)), 1)
       IN  /\ heap' = st.heap
           /\ cache' = st.cache
           /\ log' = Append(log, [op |-> "add", logId |-> logId,
                                  documentState |-> documentState,
                                  completions |-> completions,
                                  array |-> Ref(Len(made)),
                                  sizeBefore |-> Len(cache)])
    /\ AliasFrame

\* add called with an array that is there already: one passed to an earlier
\* add, or the completions of an entry that get returned
AddAgain(logId, documentState, array) ==
    /\ AliasStep
    /\ array.ref \in DOMAIN heap
    /\ "items" \in DOMAIN heap[array.ref]
    /\ LET st == addRef([heap |-> heap, cache |-> cache], logId, documentState, array, 1)
       IN  /\ heap' = st.heap
           /\ cache' = st.cache
           /\ log' = Append(log, [op |-> "add", logId |-> logId,
                                  documentState |-> documentState,
                                  completions |-> DerefArray(heap, array),
                                  array |-> array,
                                  sizeBefore |-> Len(cache)])
    /\ AliasFrame

\* get: the reference the cache holds is what the caller gets; value is what
\* the caller read through it at that time
GetRef(request) ==
    /\ AliasStep
    /\ cache' = LruTouch(cache, getKey(request))
    /\ log' = Append(log, [op |-> "get", request |-> request,
                           result |-> LruPeek(cache, getKey(request)),
                           value |-> IF LruHas(cache, getKey(request))
                                     THEN DerefEntry(heap, LruPeek(cache, getKey(request)))
                                     ELSE undefined,
                           sizeBefore |-> Len(cache)])
    /\ UNCHANGED heap
    /\ AliasFrame

ClearRef ==
    /\ AliasStep
    /\ cache' = clear(cache)
    /\ log' = Append(log, [op |-> "clear", sizeBefore |-> Len(cache)])
    /\ UNCHANGED heap
    /\ AliasFrame

AliasDoc == Doc(<<"a", NL, " ">>, <<>>, TS)

AliasCompletionLists == { <<Completion(<<"b">>)>>, <<Completion(<<" ", "b">>)>> }

NextAlias ==
    \/ \E logId \in LogIds, cs \in AliasCompletionLists : AddNew(logId, AliasDoc, cs)
    \/ \E n \in 1 .. (10 * MaxAliasOps) : AddAgain("id2", AliasDoc, Ref(n))
    \/ \E r \in Requests({AliasDoc}) : GetRef(r)
    \/ ClearRef

SpecAlias == Init /\ [][NextAlias]_vars

\* the calls of get that returned an entry
Hits == {n \in DOMAIN log : log[n].op = "get" /\ log[n].result # undefined}

AddCalls == {n \in DOMAIN log : log[n].op = "add"}

\* C29: no call of add, get or clear changes an object that exists: what a
\* caller reads through an entry that get returned (its logId, its list and
\* the contents) is what it read when it got it, the array passed to add
\* reads as it did when it was passed, and after a call of add the entry
\* under every key it inserted under, and the array of that entry, are
\* objects the call has made.  The objects read together give the cache of
\* the model by value.
C29_NeverMutated ==
    /\ [](/\ \A n \in Hits : DerefEntry(heap, log[n].result) = log[n].value
          /\ \A n \in AddCalls : DerefArray(heap, log[n].array) = log[n].completions)
    /\ [][ /\ Len(heap') >= Len(heap)
           /\ SubSeq(heap', 1, Len(heap)) = heap
           /\ (last'.op = "add" /\ Len(log') = Len(log) + 1)
                => /\ \A key \in InsertedKeys(last') \cap LruKeys(cache') :
                        /\ LruPeek(cache', key).ref > Len(heap)
                        /\ heap'[LruPeek(cache', key).ref].completions.ref > Len(heap)
                        /\ heap'[LruPeek(cache', key).ref].completions # last'.array
                   /\ DerefCache(heap', cache')
                        = add(DerefCache(heap, cache), last'.logId,
                              last'.documentState, last'.completions) ]_vars

\* get returned an entry, and an add called with the completions of that
\* entry put a longer list under the same key with another logId: the entry
\* that get returned reads as before, and the cache holds another object
C29_Witness ==
    /\ Len(log) = 4
    /\ log[2].op = "add" /\ log[2].logId = "id1"
    /\ log[3].op = "get" /\ log[3].result # undefined
    /\ log[4].op = "add" /\ log[4].logId = "id2"
    /\ log[4].array = heap[log[3].result.ref].completions
    /\ LruHas(cache, getKey(log[3].request))
    /\ LruPeek(cache, getKey(log[3].request)) # log[3].result
    /\ DerefEntry(heap, LruPeek(cache, getKey(log[3].request))).logId = "id2"
    /\ Len(DerefEntry(heap, LruPeek(cache, getKey(log[3].request))).completions) = 2
    /\ DerefEntry(heap, log[3].result) = log[3].value
    /\ log[3].value.logId = "id1"
    /\ Len(log[3].value.completions) = 1

(***************************************************************************)
(* RepoFetcher of vscode/src/context/repo-picker.ts, as RemoteRepoPicker   *)
(* drives it.  fetcher holds the fields of the instance, the calls of      *)
(* fetch that were started (loops) and the events the call just made has   *)
(* fired.  A client is the number of the SourcegraphGraphQLAPIClient       *)
(* object: every updateConfiguration makes a new one.  A cursor is the     *)
(* number of the page it ends; NoCursor is undefined (and the empty        *)
(* endCursor of the last page).  The instance of a configuration has       *)
(* NumPages pages of one repository each.                                  *)
(***************************************************************************)
NoCursor == 0

NumPages == 2

\* the answer of client.getRepoList(numResultsPerQuery, after): an Error, or
\* the page that follows the cursor
RepoListAfter(client, after) ==
    [isError |-> FALSE,
     nodes |-> <<[id |-> after + 1, client |-> client]>>,
     endCursor |-> IF after + 1 < NumPages THEN after + 1 ELSE NoCursor]

RepoListError == [isError |-> TRUE]

\* set state(newState)
setState(f, newState) ==
    IF f.state_ = newState THEN f
    ELSE [f EXCEPT !.state_ = newState,
                   !.fired = Append(@, [event |-> "stateChanged", state |-> newState])]

\* the start of fetch() up to its first await: a loop that waits for
\* client.getRepoList(numResultsPerQuery, this.after)
fetchStart(f) ==
    IF f.state_ = "Paused" THEN f
    ELSE [f EXCEPT !.loops = Append(@, [client |-> f.client, pc |-> "getRepoList",
                                        after |-> f.after, overtaken |-> FALSE])]

resume(f) == fetchStart(setState(f, "Fetching"))

pause(f) == setState(f, "Paused")

\* updateConfiguration; overtaken marks the requests that were in flight
updateConfiguration(f) ==
    LET reset == [f EXCEPT !.client = @ + 1,
                           !.repos = <<>>,
                           !.after = NoCursor,
                           !.loops = [i \in DOMAIN @ |->
                                        IF @[i].pc = "getRepoList"
                                        THEN [@[i] EXCEPT !.overtaken = TRUE]
                                        ELSE @[i]]]
    IN  setState(reset, "Paused")

\* (mutation) the loop goes on whatever became of this.client
getRepoListReturned_NoClientCheck(f, i, result) ==
    IF result.isError
    THEN [setState(f, "Errored") EXCEPT !.error_ = result, !.loops[i].pc = "done"]
    ELSE [f EXCEPT !.repos = @ \o result.nodes,
                   !.fired = Append(@, [event |-> "repoListChanged"]),
                   !.after = result.endCursor,
                   !.loops[i].pc = "timeout"]

\* fetch() of loop i from the return of getRepoList to the next await
getRepoListReturned(f, i, result) ==
    IF f.client # f.loops[i].client
    THEN [f EXCEPT !.loops[i].pc = "done"]
    ELSE IF result.isError
         THEN [setState(f, "Errored") EXCEPT !.error_ = result, !.loops[i].pc = "done"]
         ELSE [f EXCEPT !.repos = @ \o result.nodes,
                        !.fired = Append(@, [event |-> "repoListChanged"]),
                        !.after = result.endCursor,
                        !.loops[i].pc = "timeout"]

\* (mutation) a loop whose client was replaced stops after the delay too
timeoutFired_ChecksClient(f, i) ==
    IF f.client # f.loops[i].client
    THEN [f EXCEPT !.loops[i].pc = "done"]
    ELSE IF f.state_ = "Fetching" /\ f.after # NoCursor
         THEN [f EXCEPT !.loops[i].pc = "getRepoList", !.loops[i].after = f.after]
         ELSE IF f.after = NoCursor
              THEN [setState(f, "Complete") EXCEPT !.loops[i].pc = "done"]
              ELSE [f EXCEPT !.loops[i].pc = "done"]

\* fetch() of loop i from the end of the delay: the while condition, then
\* the next request or the end of the function
timeoutFired(f, i) ==
    IF f.state_ = "Fetching" /\ f.after # NoCursor
    THEN [f EXCEPT !.loops[i].pc = "getRepoList", !.loops[i].after = f.after]
    ELSE IF f.after = NoCursor
         THEN [setState(f, "Complete") EXCEPT !.loops[i].pc = "done"]
         ELSE [f EXCEPT !.loops[i].pc = "done"]

MaxFetchSteps == 6

FetcherFrame ==
    UNCHANGED <<cache, sync, storage, clientSettings_, publisher, heap,
                mapper, remoteSearch>>

FetcherStep == ops < MaxFetchSteps /\ ops' = ops + 1

\* the call starts with no event fired yet
Calling(f) == [f EXCEPT !.fired = <<>>]

\* RemoteRepoPicker.show: resume unless the fetcher is Complete
Show ==
    /\ FetcherStep
    /\ ~fetcher.visible
    /\ fetcher' = [(IF fetcher.state_ # "Complete"
                    THEN resume(Calling(fetcher)) ELSE Calling(fetcher))
                   EXCEPT !.visible = TRUE]
    /\ log' = <<[op |-> "show"]>>
    /\ FetcherFrame

\* quickpick.onDidHide: pause unless the fetcher is Complete
Hide ==
    /\ FetcherStep
    /\ fetcher.visible
    /\ fetcher' = [(IF fetcher.state_ # "Complete"
                    THEN pause(Calling(fetcher)) ELSE Calling(fetcher))
                   EXCEPT !.visible = FALSE]
    /\ log' = <<[op |-> "hide"]>>
    /\ FetcherFrame

UpdateConfiguration ==
    /\ FetcherStep
    /\ fetcher' = updateConfiguration(Calling(fetcher))
    /\ log' = <<[op |-> "updateConfiguration"]>>
    /\ FetcherFrame

\* the request of loop i is answered, with an Error or with its page
GetRepoListReturns(i, failed) ==
    /\ FetcherStep
    /\ i \in DOMAIN fetcher.loops
    /\ fetcher.loops[i].pc = "getRepoList"
    /\ LET result == IF failed THEN RepoListError
                     ELSE RepoListAfter(fetcher.loops[i].client, fetcher.loops[i].after)
       IN  /\ fetcher' = getRepoListReturned(Calling(fetcher), i, result)
           /\ log' = <<[op |-> "getRepoListReturned", loop |-> i, result |-> result,
                        overtaken |-> fetcher.loops[i].overtaken]>>
    /\ FetcherFrame

\* the delay of loop i is over
TimeoutFires(i) ==
    /\ FetcherStep
    /\ i \in DOMAIN fetcher.loops
    /\ fetcher.loops[i].pc = "timeout"
    /\ fetcher' = timeoutFired(Calling(fetcher), i)
    /\ log' = <<[op |-> "timeoutFired", loop |-> i]>>
    /\ FetcherFrame

InitFetcher ==
    /\ cache = <<>>
    /\ log = <<[op |-> "new"]>>
    /\ ops = 0
    /\ sync = undefined
    /\ storage = undefined
    /\ clientSettings_ = undefined
    /\ publisher = [providers |-> <<>>, providerStatusMap |-> [entries |-> <<>>]]
    /\ heap = <<>>
    /\ fetcher = [state_ |-> "Paused", client |-> 1, after |-> NoCursor,
                  repos |-> <<>>, error_ |-> undefined, loops |-> <<>>,
                  fired |-> <<>>, visible |-> FALSE]
    /\ mapper = undefined
    /\ remoteSearch = undefined

NextFetcher ==
    \/ Show
    \/ Hide
    \/ UpdateConfiguration
    \/ \E i \in 1 .. MaxFetchSteps : \E failed \in BOOLEAN : GetRepoListReturns(i, failed)
    \/ \E i \in 1 .. MaxFetchSteps : TimeoutFires(i)

SpecFetcher == InitFetcher /\ [][NextFetcher]_vars

(***************************************************************************)
(* C31                                                                     *)
(***************************************************************************)
\* the fields of the instance that a caller can read, and the loops
FetcherFields(f) == <<f.state_, f.client, f.after, f.repos, f.error_>>

\* C31: when updateConfiguration was called while the getRepoList request of
\* a loop was in flight, the return of that request leaves the repository
\* list and every other field as they are, fires no event, and ends the
\* loop: no later step is taken for it.
C31_StaleFetchDiscarded ==
    [][ (last'.op = "getRepoListReturned" /\ last'.overtaken)
        => /\ FetcherFields(fetcher') = FetcherFields(fetcher)
           /\ fetcher'.fired = <<>>
           /\ fetcher'.loops[last'.loop].pc = "done"
           /\ \A i \in DOMAIN fetcher.loops :
                i # last'.loop => fetcher'.loops[i] = fetcher.loops[i] ]_vars

\* the page of a request that a configuration change overtook has come
\* back, after the new configuration had fetched a page of its own: the list
\* holds the page of the new configuration only
C31_Witness ==
    /\ last.op = "getRepoListReturned"
    /\ last.overtaken
    /\ ~last.result.isError
    /\ fetcher.loops[last.loop].pc = "done"
    /\ fetcher.client = 2
    /\ fetcher.repos = <<[id |-> 1, client |-> 2]>>
    /\ fetcher.fired = <<>>

(***************************************************************************)
(* C32                                                                     *)
(***************************************************************************)
\* the pages of the current configuration that the list holds
PagesFetched(f) ==
    {f.repos[n].id : n \in {m \in DOMAIN f.repos : f.repos[m].client = f.client}}

\* C32 as stated: the state is Complete only when the page fetched last was
\* one of the current configuration and had no end cursor, and never while
\* pages of the current configuration remain unfetched.
C32_Original ==
    fetcher.state_ = "Complete"
        => /\ fetcher.repos # <<>>
           /\ fetcher.repos[Len(fetcher.repos)] = [id |-> NumPages, client |-> fetcher.client]
           /\ PagesFetched(fetcher) = 1 .. NumPages

(***************************************************************************)
(* C33                                                                     *)
(***************************************************************************)
\* the loops of the current configuration that have not returned
ActiveLoops(f) ==
    {i \in DOMAIN f.loops : f.loops[i].pc # "done" /\ f.loops[i].client = f.client}

\* C33 as stated: at most one fetch loop is active at a time, no two requests
\* in flight ask for the same cursor, and the repository list holds no page
\* twice.
C33_Original ==
    /\ Cardinality(ActiveLoops(fetcher)) <= 1
    /\ \A i, j \in ActiveLoops(fetcher) :
            (i # j /\ fetcher.loops[i].pc = "getRepoList"
                   /\ fetcher.loops[j].pc = "getRepoList")
                => fetcher.loops[i].after # fetcher.loops[j].after
    /\ \A m, n \in DOMAIN fetcher.repos :
            m # n => fetcher.repos[m] # fetcher.repos[n]

(***************************************************************************)
(* WorkspaceRepoMapper of vscode/src/services/SecretStorageProvider.ts.    *)
(* mapper holds the fields of the instance, the promises that the async    *)
(* function in start has made (a reference to one is its index), the       *)
(* calls of updateRepos that wait for client.getRepoIds (lookups) and the  *)
(* workspace-folder listeners registered.  A promise made by start counts  *)
(* the callbacks that updateConfiguration has chained to it.               *)
(***************************************************************************)
WorkspaceRepos == <<[name |-> "repo", id |-> "r1"]>>

\* (mutation) the failed start stays in started
lookupReturned_KeepsStarted(m, l, failed) ==
    LET lookup == m.lookups[l]
        answered == [m EXCEPT !.lookups[l].pc = "done"]
        updated == [answered EXCEPT !.repos = WorkspaceRepos, !.fired = @ + 1]
    IN  IF lookup.by # "start"
        THEN IF failed THEN answered ELSE updated
        ELSE IF failed
             THEN [answered EXCEPT !.promises[lookup.promise].state = "rejected"]
             ELSE [updated EXCEPT
                     !.listeners = @ + 1,
                     !.promises[lookup.promise].state = "fulfilled",
                     !.lookups = @ \o [n \in 1 .. m.promises[lookup.promise].then |->
                                          [by |-> "updateConfiguration", pc |-> "getRepoIds"]]]

\* (mutation) start looks up again whatever started holds
start_NeverJoins(m) ==
    [mapper |-> [m EXCEPT !.promises = Append(@, [state |-> "pending", then |-> 0]),
                          !.lookups = Append(@, [by |-> "start", pc |-> "getRepoIds",
                                                 promise |-> Len(m.promises) + 1]),
                          !.started = Ref(Len(m.promises) + 1)],
     returned |-> Ref(Len(m.promises) + 1)]

\* start(): the promise the caller's promise follows, and the instance
\* after the synchronous part of the call (updateRepos runs up to
\* client.getRepoIds before this.started is assigned)
start(m) ==
    IF m.started # undefined
    THEN [mapper |-> m, returned |-> m.started]
    ELSE [mapper |-> [m EXCEPT !.promises = Append(@, [state |-> "pending", then |-> 0]),
                               !.lookups = Append(@, [by |-> "start", pc |-> "getRepoIds",
                                                      promise |-> Len(m.promises) + 1]),
                               !.started = Ref(Len(m.promises) + 1)],
          returned |-> Ref(Len(m.promises) + 1)]

\* updateConfiguration: this.started.then(() => this.updateRepos())
mapperUpdateConfiguration(m) ==
    IF m.started = undefined THEN m
    ELSE IF m.promises[m.started.ref].state = "fulfilled"
         THEN [m EXCEPT !.lookups = Append(@, [by |-> "updateConfiguration",
                                               pc |-> "getRepoIds"])]
         ELSE [m EXCEPT !.promises[m.started.ref].then = @ + 1]

\* vscode.workspace.onDidChangeWorkspaceFolders fires: every listener calls
\* updateRepos
workspaceFoldersChanged(m) ==
    [m EXCEPT !.lookups = @ \o [n \in 1 .. m.listeners |->
                                   [by |-> "listener", pc |-> "getRepoIds"]]]

\* client.getRepoIds of lookup l is answered: the rest of findRepoIds and
\* updateRepos and, for the lookup of start, the rest of the async function
lookupReturned(m, l, failed) ==
    LET lookup == m.lookups[l]
        answered == [m EXCEPT !.lookups[l].pc = "done"]
        updated == [answered EXCEPT !.repos = WorkspaceRepos, !.fired = @ + 1]
    IN  IF lookup.by # "start"
        THEN IF failed THEN answered ELSE updated
        ELSE IF failed
             THEN [answered EXCEPT !.started = undefined,
                                   !.promises[lookup.promise].state = "rejected"]
             ELSE [updated EXCEPT
                     !.listeners = @ + 1,
                     !.promises[lookup.promise].state = "fulfilled",
                     !.lookups = @ \o [n \in 1 .. m.promises[lookup.promise].then |->
                                          [by |-> "updateConfiguration", pc |-> "getRepoIds"]]]

MaxMapperSteps == 5

MapperFrame ==
    UNCHANGED <<cache, sync, storage, clientSettings_, publisher, heap,
                fetcher, remoteSearch>>

MapperStep == ops < MaxMapperSteps /\ ops' = ops + 1

Start ==
    /\ MapperStep
    /\ mapper' = start(mapper).mapper
    /\ log' = <<[op |-> "start", returned |-> start(mapper).returned]>>
    /\ MapperFrame

MapperUpdateConfiguration ==
    /\ MapperStep
    /\ mapper' = mapperUpdateConfiguration(mapper)
    /\ log' = <<[op |-> "updateConfiguration"]>>
    /\ MapperFrame

WorkspaceFoldersChanged ==
    /\ MapperStep
    /\ mapper.listeners > 0
    /\ mapper' = workspaceFoldersChanged(mapper)
    /\ log' = <<[op |-> "workspaceFoldersChanged"]>>
    /\ MapperFrame

LookupReturns(l, failed) ==
    /\ MapperStep
    /\ l \in DOMAIN mapper.lookups
    /\ mapper.lookups[l].pc = "getRepoIds"
    /\ mapper' = lookupReturned(mapper, l, failed)
    /\ log' = <<[op |-> "lookupReturned", lookup |-> l, failed |-> failed,
                 by |-> mapper.lookups[l].by]>>
    /\ MapperFrame

InitMapper ==
    /\ cache = <<>>
    /\ log = <<[op |-> "new"]>>
    /\ ops = 0
    /\ sync = undefined
    /\ storage = undefined
    /\ clientSettings_ = undefined
    /\ publisher = [providers |-> <<>>, providerStatusMap |-> [entries |-> <<>>]]
    /\ heap = <<>>
    /\ fetcher = undefined
    /\ mapper = [started |-> undefined, promises |-> <<>>, lookups |-> <<>>,
                 listeners |-> 0, repos |-> <<>>, fired |-> 0]
    /\ remoteSearch = undefined

NextMapper ==
    \/ Start
    \/ MapperUpdateConfiguration
    \/ WorkspaceFoldersChanged
    \/ \E l \in 1 .. (2 * MaxMapperSteps) : \E failed \in BOOLEAN : LookupReturns(l, failed)

SpecMapper == InitMapper /\ [][NextMapper]_vars

(***************************************************************************)
(* C34                                                                     *)
(***************************************************************************)
\* the promises of start that have not failed
Unfailed(m) == {p \in DOMAIN m.promises : m.promises[p].state # "rejected"}

StartLookups(m) == {l \in DOMAIN m.lookups : m.lookups[l].by = "start"}

\* C34: a call of start made while a start is in progress or after one
\* succeeded returns the promise of that start and changes nothing: no
\* lookup is issued and no listener registered.  A call made when none is in
\* progress or succeeded makes a new promise and issues one lookup.  When
\* the lookup of a start fails, started is reset and no listener is
\* registered; when it succeeds, one listener is registered.  So there is
\* one listener for each start that succeeded, and at most one start that
\* has not failed.
C34_JoinableRetryable ==
    /\ [](/\ mapper.listeners
                = Cardinality({p \in DOMAIN mapper.promises :
                                  mapper.promises[p].state = "fulfilled"})
          /\ Cardinality(Unfailed(mapper)) <= 1
          /\ mapper.started = undefined <=> Unfailed(mapper) = {})
    /\ [][ /\ (last'.op = "start" /\ mapper.started # undefined)
                => /\ last'.returned = mapper.started
                   /\ mapper' = mapper
           /\ (last'.op = "start" /\ mapper.started = undefined)
                => /\ mapper'.started = last'.returned
                   /\ last'.returned.ref \notin DOMAIN mapper.promises
                   /\ mapper'.promises[last'.returned.ref].state = "pending"
                   /\ Cardinality(StartLookups(mapper'))
                        = Cardinality(StartLookups(mapper)) + 1
                   /\ mapper'.listeners = mapper.listeners
           /\ (last'.op = "lookupReturned" /\ last'.by = "start" /\ last'.failed)
                => /\ mapper'.started = undefined
                   /\ mapper'.listeners = mapper.listeners
           /\ (last'.op = "lookupReturned" /\ last'.by = "start" /\ ~last'.failed)
                => /\ mapper'.started = mapper.started
                   /\ mapper'.listeners = mapper.listeners + 1 ]_vars

\* the first start failed, the second was a new attempt that succeeded, and
\* a third call has joined it: two lookups were issued for start, one
\* listener is registered
C34_Witness ==
    /\ last.op = "start"
    /\ last.returned = Ref(2)
    /\ mapper.started = Ref(2)
    /\ mapper.promises = <<[state |-> "rejected", then |-> 0],
                           [state |-> "fulfilled", then |-> 0]>>
    /\ Cardinality(StartLookups(mapper)) = 2
    /\ Len(mapper.lookups) = 2
    /\ mapper.listeners = 1

(***************************************************************************)
(* RemoteSearch of vscode/src/services/SecretStorageProvider.ts.  A        *)
(* Map<string, Repo> is the sequence of its entries [id, displayName] in   *)
(* insertion order; remoteSearch holds reposAuto, reposManual and how      *)
(* often the call just made has fired statusChangedEmitter.                *)
(***************************************************************************)
RepoMapHas(map, id) == \E i \in DOMAIN map : map[i].id = id

RepoMapGet(map, id) == map[CHOOSE i \in DOMAIN map : map[i].id = id]

\* new Map(repos.map(repo => [repo.id, { displayName: repo.name }])): a
\* later repo with the same id replaces the value and keeps the place
RECURSIVE RepoMapOf(_)
RepoMapOf(repos) ==
    IF repos = <<>> THEN <<>>
    ELSE LET front == RepoMapOf(SubSeq(repos, 1, Len(repos) - 1))
             repo == repos[Len(repos)]
             entry == [id |-> repo.id, displayName |-> repo.name]
         IN  IF RepoMapHas(front, repo.id)
             THEN [i \in DOMAIN front |-> IF front[i].id = repo.id THEN entry ELSE front[i]]
             ELSE Append(front, entry)

RepoMapKeys(map) == [i \in DOMAIN map |-> map[i].id]

\* getRepoIdSet(): the ids in the order of the Set, each once
getRepoIdSet(rs) ==
    RepoMapKeys(rs.reposAuto)
        \o SelectSeq(RepoMapKeys(rs.reposManual),
                     LAMBDA id : ~RepoMapHas(rs.reposAuto, id))

\* get status()
remoteSearchStatus(rs) ==
    LET ids == getRepoIdSet(rs)
    IN  [n \in DOMAIN ids |->
            LET id == ids[n]
                auto == RepoMapHas(rs.reposAuto, id)
                manual == RepoMapHas(rs.reposManual, id)
                autoName == IF auto THEN RepoMapGet(rs.reposAuto, id).displayName ELSE ""
                manualName == IF manual THEN RepoMapGet(rs.reposManual, id).displayName ELSE ""
            IN  [displayName |-> IF autoName # "" THEN autoName
                                 ELSE IF manualName # "" THEN manualName ELSE "?",
                 providers |-> <<[kind |-> "search", type |-> "remote",
                                  state |-> "ready", id |-> id,
                                  inclusion |-> IF auto THEN "auto" ELSE "manual"]>>]]

\* (mutation) the repository goes from both maps
removeRepo_FromBoth(rs, repoId) ==
    IF RepoMapHas(rs.reposManual, repoId) \/ RepoMapHas(rs.reposAuto, repoId)
    THEN [rs EXCEPT !.reposManual = SelectSeq(@, LAMBDA e : e.id # repoId),
                    !.reposAuto = SelectSeq(@, LAMBDA e : e.id # repoId),
                    !.fired = @ + 1]
    ELSE rs

\* removeRepo(repoId)
removeRepo(rs, repoId) ==
    IF RepoMapHas(rs.reposManual, repoId)
    THEN [rs EXCEPT !.reposManual = SelectSeq(@, LAMBDA e : e.id # repoId),
                    !.fired = @ + 1]
    ELSE rs

\* setRepos(repos, inclusion)
setRepos(rs, repos, inclusion) ==
    IF inclusion = "auto"
    THEN [rs EXCEPT !.reposAuto = RepoMapOf(repos), !.fired = @ + 1]
    ELSE [rs EXCEPT !.reposManual = RepoMapOf(repos), !.fired = @ + 1]

MaxSearchCalls == 3

RepoIds == {"r1", "r2", "r3"}

RepoOf(id) == [name |-> "github.com/" \o id, id |-> id]

RepoLists ==
    {<<>>, <<RepoOf("r1")>>, <<RepoOf("r2")>>, <<RepoOf("r1"), RepoOf("r2")>>}

SearchFrame ==
    UNCHANGED <<cache, sync, storage, clientSettings_, publisher, heap, fetcher, mapper>>

SearchStep == ops < MaxSearchCalls /\ ops' = ops + 1

SetRepos(repos, inclusion) ==
    /\ SearchStep
    /\ remoteSearch' = setRepos([remoteSearch EXCEPT !.fired = 0], repos, inclusion)
    /\ log' = <<[op |-> "setRepos", repos |-> repos, inclusion |-> inclusion]>>
    /\ SearchFrame

RemoveRepo(repoId) ==
    /\ SearchStep
    /\ remoteSearch' = removeRepo([remoteSearch EXCEPT !.fired = 0], repoId)
    /\ log' = <<[op |-> "removeRepo", repoId |-> repoId]>>
    /\ SearchFrame

InitSearch ==
    /\ cache = <<>>
    /\ log = <<[op |-> "new"]>>
    /\ ops = 0
    /\ sync = undefined
    /\ storage = undefined
    /\ clientSettings_ = undefined
    /\ publisher = [providers |-> <<>>, providerStatusMap |-> [entries |-> <<>>]]
    /\ heap = <<>>
    /\ fetcher = undefined
    /\ mapper = undefined
    /\ remoteSearch = [reposAuto |-> <<>>, reposManual |-> <<>>, fired |-> 0]

NextSearch ==
    \/ \E repos \in RepoLists, inclusion \in {"auto", "manual"} : SetRepos(repos, inclusion)
    \/ \E repoId \in RepoIds : RemoveRepo(repoId)

SpecSearch == InitSearch /\ [][NextSearch]_vars

(***************************************************************************)
(* C35                                                                     *)
(***************************************************************************)
IdsOf(ids) == {ids[n] : n \in DOMAIN ids}

\* C35: removeRepo(id) leaves the automatic map as it is, so that an id in
\* it stays in getRepoIdSet(); the manual map loses the entry of id and
\* nothing else; the event is fired once when the manual map held id and
\* not at all when it did not.  In every state, status reports a
\* repository that is in the automatic map with inclusion 'auto', be it in
\* the manual map or not.
C35_AutoStays ==
    /\ [](\A n \in DOMAIN remoteSearchStatus(remoteSearch) :
            LET provider == remoteSearchStatus(remoteSearch)[n].providers[1]
            IN  provider.inclusion
                    = IF RepoMapHas(remoteSearch.reposAuto, provider.id)
                      THEN "auto" ELSE "manual")
    /\ [][ last'.op = "removeRepo"
           => /\ remoteSearch'.reposAuto = remoteSearch.reposAuto
              /\ \A id \in IdsOf(RepoMapKeys(remoteSearch.reposAuto)) :
                    id \in IdsOf(getRepoIdSet(remoteSearch'))
              /\ remoteSearch'.reposManual
                    = SelectSeq(remoteSearch.reposManual, LAMBDA e : e.id # last'.repoId)
              /\ remoteSearch'.fired
                    = IF RepoMapHas(remoteSearch.reposManual, last'.repoId) THEN 1 ELSE 0
         ]_vars

\* r1 was set in both maps and then removed: the manual entry is gone, the
\* event was fired, and r1 is still searched and reported as 'auto'
C35_Witness ==
    /\ last.op = "removeRepo"
    /\ last.repoId = "r1"
    /\ remoteSearch.fired = 1
    /\ RepoMapHas(remoteSearch.reposAuto, "r1")
    /\ ~RepoMapHas(remoteSearch.reposManual, "r1")
    /\ getRepoIdSet(remoteSearch) = <<"r1">>
    /\ remoteSearchStatus(remoteSearch)[1].providers[1].inclusion = "auto"

(***************************************************************************)
(* getInlineCompletionItemProviderFilters of vscode/src/completions.  The  *)
(* configuration Record<string, boolean> is a function from the keys it    *)
(* has to BOOLEAN.                                                         *)
(***************************************************************************)
DISABLED_LANGUAGES == {"scminput"}

\* the filter for one language, or none
filtersForLanguage(autocompleteLanguages, language) ==
    LET isEnabledForAll == IF "*" \in DOMAIN autocompleteLanguages
                           THEN autocompleteLanguages["*"]
                           ELSE FALSE
        perLanguageConfig == DOMAIN autocompleteLanguages \ {"*"}
        enabled == IF language \notin DISABLED_LANGUAGES /\ language \in perLanguageConfig
                   THEN autocompleteLanguages[language]
                   ELSE isEnabledForAll
    IN  IF enabled THEN <<[language |-> language, scheme |-> "file"]>> ELSE <<>>

\* languageIds.flatMap(...)
RECURSIVE getInlineCompletionItemProviderFilters(_, _)
getInlineCompletionItemProviderFilters(autocompleteLanguages, languageIds) ==
    IF languageIds = <<>> THEN <<>>
    ELSE filtersForLanguage(autocompleteLanguages, Head(languageIds))
            \o getInlineCompletionItemProviderFilters(autocompleteLanguages,
                                                      Tail(languageIds))

\* what vscode.languages.getLanguages() returns
LanguageLists ==
    {<<"typescript", "scminput", "python">>, <<"scminput">>, <<"python", "typescript">>}

ConfigKeys == {"*", "scminput", "typescript", "python"}

AutocompleteLanguages ==
    UNION {[keys -> BOOLEAN] : keys \in SUBSET ConfigKeys}

GetInlineCompletionItemProviderFilters ==
    /\ Len(log) = 1
    /\ log' = Append(log, [op |-> "getInlineCompletionItemProviderFilters",
                           result |-> getInlineCompletionItemProviderFilters(
                                          log[1].autocompleteLanguages,
                                          log[1].languageIds)])
    /\ UNCHANGED <<cache, ops, others>>

InitFilters ==
    /\ cache = <<>>
    /\ ops = 0
    /\ \E autocompleteLanguages \in AutocompleteLanguages, languageIds \in LanguageLists :
          log = <<[op |-> "input", autocompleteLanguages |-> autocompleteLanguages,
                   languageIds |-> languageIds]>>
    /\ OthersInit

NextFilters == GetInlineCompletionItemProviderFilters

SpecFilters == InitFilters /\ [][NextFilters]_vars

(***************************************************************************)
(* C36                                                                     *)
(***************************************************************************)
\* C36 as stated: for every configuration, the filters returned name no
\* language of DISABLED_LANGUAGES.
C36_Original ==
    (Len(log) = 2 /\ log[2].op = "getInlineCompletionItemProviderFilters")
        => \A n \in DOMAIN log[2].result :
                log[2].result[n].language \notin DISABLED_LANGUAGES

(***************************************************************************)
(* C37                                                                     *)
(* SpecNormalize: normalizeModelList on the lists of up to                 *)
(* MaxNormalizeModels models, each with one of two ids, from the server    *)
(* (tag enterprise) or the user's own (tag byok).                          *)
(***************************************************************************)
MaxNormalizeModels == 3

NormalizeModels == [id : {"gpt-4", "opus"}, tags : {{"enterprise"}, {"byok"}, {"byok", "local"}}]

NormalizeInputs ==
    UNION {[1 .. n -> NormalizeModels] : n \in 0 .. MaxNormalizeModels}

NormalizeModelList ==
    /\ Len(log) = 1
    /\ log' = Append(log, [op |-> "normalizeModelList",
                           result |-> normalizeModelList(log[1].models)])
    /\ UNCHANGED <<cache, ops, others>>

InitNormalize ==
    /\ cache = <<>>
    /\ ops = 0
    /\ \E models \in NormalizeInputs : log = <<[op |-> "input", models |-> models]>>
    /\ OthersInit

NextNormalize == NormalizeModelList

SpecNormalize == InitNormalize /\ [][NextNormalize]_vars

IsBYOK(model) == "byok" \in model.tags

ServerIds(models) == {models[n].id : n \in {m \in DOMAIN models : ~IsBYOK(models[m])}}

\* C37: in the list normalizeModelList returns, no BYOK model comes before a
\* non-BYOK model; the non-BYOK models are those of the input, all of them
\* and in its order; the BYOK models are those of the input whose id is the
\* id of no non-BYOK model, in its order; so no BYOK model of the result has
\* the id of a non-BYOK one and nothing is in the result that was not in the
\* input.
C37_NoShadowing ==
    (Len(log) = 2 /\ log[2].op = "normalizeModelList")
        => LET models == log[1].models
               result == log[2].result
           IN  /\ \A i, j \in DOMAIN result :
                        (i < j /\ IsBYOK(result[i])) => IsBYOK(result[j])
               /\ SelectSeq(result, LAMBDA m : ~IsBYOK(m))
                    = SelectSeq(models, LAMBDA m : ~IsBYOK(m))
               /\ SelectSeq(result, IsBYOK)
                    = SelectSeq(models,
                                LAMBDA m : IsBYOK(m) /\ m.id \notin ServerIds(models))
               /\ \A i, j \in DOMAIN result :
                        (IsBYOK(result[i]) /\ ~IsBYOK(result[j]))
                            => result[i].id # result[j].id
               /\ \A i \in DOMAIN result : \E n \in DOMAIN models : models[n] = result[i]

\* a BYOK gpt-4 before the server's gpt-4 and a BYOK opus: the server model
\* comes first, the BYOK gpt-4 is gone and the BYOK opus stays
C37_Witness ==
    /\ Len(log) = 2
    /\ log[2].op = "normalizeModelList"
    /\ log[1].models = <<[id |-> "gpt-4", tags |-> {"byok"}],
                         [id |-> "gpt-4", tags |-> {"enterprise"}],
                         [id |-> "opus", tags |-> {"byok"}]>>
    /\ log[2].result = <<[id |-> "gpt-4", tags |-> {"enterprise"}],
                         [id |-> "opus", tags |-> {"byok"}]>>

(***************************************************************************)
(* C38                                                                     *)
(* SpecPreferences: resolveModelPreferences of sync.ts and                 *)
(* ModelsService.setServerDefaultModel of index.ts on the preferences of   *)
(* one endpoint.                                                           *)
(***************************************************************************)
\* setServerDefaultModel(usage, newDefaultModelRef) on this.preferences;
\* flushed tells whether flush() was awaited
setServerDefaultModel(preferences, usage, newDefaultModelRef) ==
    IF preferences.defaults[usage] = modelIdOf(newDefaultModelRef)
    THEN [preferences |-> preferences, flushed |-> FALSE]
    ELSE [preferences |-> [preferences EXCEPT
                              !.defaults[usage] = modelIdOf(newDefaultModelRef),
                              !.selected[usage] = unset],
          flushed |-> TRUE]

PreferenceModelIds == {"opus", "titan"}

UserPreferences ==
    [defaults : [ModelUsage -> PreferenceModelIds \cup {unset}],
     selected : [ModelUsage -> {"mixtral", unset}]]

\* the preferences syncModels makes of a fetched configuration (edit takes
\* the chat default), of a failed fetch (no defaults), or none
RemotePreferences ==
    {null}
        \cup {[defaults |-> [chat |-> c, edit |-> c, autocomplete |-> a]] :
                c \in PreferenceModelIds \cup {unset},
                a \in PreferenceModelIds \cup {unset}}

ServerModelRefs == {<<"anthropic", "unknown", id>> : id \in PreferenceModelIds}

ResolveModelPreferences(remote) ==
    /\ Len(log) = 1
    /\ log' = Append(log, [op |-> "resolveModelPreferences", remote |-> remote,
                           result |-> resolveModelPreferences(remote, log[1].user)])
    /\ UNCHANGED <<cache, ops, others>>

SetServerDefaultModel(usage, newDefaultModelRef) ==
    /\ Len(log) = 1
    /\ log' = Append(log, [op |-> "setServerDefaultModel", usage |-> usage,
                           newDefaultModelId |-> modelIdOf(newDefaultModelRef),
                           flushed |-> setServerDefaultModel(log[1].user, usage,
                                                             newDefaultModelRef).flushed,
                           result |-> setServerDefaultModel(log[1].user, usage,
                                                            newDefaultModelRef).preferences])
    /\ UNCHANGED <<cache, ops, others>>

InitPreferences ==
    /\ cache = <<>>
    /\ ops = 0
    /\ \E user \in UserPreferences : log = <<[op |-> "input", user |-> user]>>
    /\ OthersInit

NextPreferences ==
    \/ \E remote \in RemotePreferences : ResolveModelPreferences(remote)
    \/ \E usage \in ModelUsage, ref \in ServerModelRefs : SetServerDefaultModel(usage, ref)

SpecPreferences == InitPreferences /\ [][NextPreferences]_vars

\* the rule of the claim for one usage: from the preferences before to those
\* after, given the server's default for the usage
DefaultRule(before, after, usage, serverDefault) ==
    IF serverDefault # before.defaults[usage]
    THEN after.defaults[usage] = serverDefault /\ after.selected[usage] = unset
    ELSE /\ after.defaults[usage] = before.defaults[usage]
         /\ after.selected[usage] = before.selected[usage]

Untouched(before, after, usage) ==
    /\ after.defaults[usage] = before.defaults[usage]
    /\ after.selected[usage] = before.selected[usage]

\* C38: resolveModelPreferences, given the server's preferences, follows for
\* each usage the rule: a server default that differs from the cached
\* default replaces it and the selection of that usage is deleted; one that
\* equals it leaves both as they are.  Without server preferences nothing
\* changes.  setServerDefaultModel follows the rule for its usage and leaves
\* the defaults and selections of the other usages as they are.
C38_DropsSelectionOfThatUsage ==
    Len(log) = 2
        => /\ (log[2].op = "resolveModelPreferences" /\ log[2].remote # null)
                => \A usage \in ModelUsage :
                      DefaultRule(log[1].user, log[2].result, usage,
                                  log[2].remote.defaults[usage])
           /\ (log[2].op = "resolveModelPreferences" /\ log[2].remote = null)
                => log[2].result = log[1].user
           /\ log[2].op = "setServerDefaultModel"
                => /\ DefaultRule(log[1].user, log[2].result, log[2].usage,
                                  log[2].newDefaultModelId)
                   /\ \A usage \in ModelUsage \ {log[2].usage} :
                         Untouched(log[1].user, log[2].result, usage)

\* the server's chat default changed and its autocomplete default did not:
\* the selections for chat and edit are gone, the one for autocomplete is
\* kept
C38_Witness ==
    /\ Len(log) = 2
    /\ log[2].op = "resolveModelPreferences"
    /\ log[1].user = [defaults |-> [chat |-> "opus", edit |-> "opus", autocomplete |-> "titan"],
                      selected |-> [chat |-> "mixtral", edit |-> "mixtral",
                                    autocomplete |-> "mixtral"]]
    /\ log[2].remote # null
    /\ log[2].remote.defaults.chat = "titan"
    /\ log[2].result = [defaults |-> [chat |-> "titan", edit |-> "titan",
                                      autocomplete |-> "titan"],
                        selected |-> [chat |-> unset, edit |-> unset,
                                      autocomplete |-> "mixtral"]]

====
